---- MODULE Spec2Model ----
(***************************************************************************)
(* graphql-edge-proxy: request admission (signature and operation store),  *)
(* the proxy stage and the handler pipeline.                               *)
(*                                                                         *)
(* Conventions.  A JavaScript string is a sequence of atoms (lexemes); the *)
(* empty string is << >>.  A JSON / JavaScript value is a record           *)
(* [t |-> type, v |-> string].  Digests are modelled as collision-free     *)
(* terms over their inputs.                                                *)
(***************************************************************************)
EXTENDS Integers, Sequences, FiniteSets, TLC

VARIABLES
    cfg,            \* configuration the parse function / handler was created with
    validateMap,    \* operation store: operationName -> validator (createOperationStore)
    setValidateFnCall, \* the setValidateFn call made since the last request, with its outcome
    documentMap,    \* utils.parse memo: input text -> DocumentNode
    normalizedMap,  \* utils.printNormalized memo: DocumentNode -> canonical text
    pc,             \* position of the request being handled
    entry,          \* who runs the pipeline: "handle" (createHandler) or "proxy" (proxy(await parseFn(req)))
    req,            \* the incoming Request
    parsed,         \* result of the parse function: ParsedRequest | ParsedError | thrown
    validatorCalls, \* invocations of a validator during this request
    originCalls,    \* requests issued to the origin during this request
    originOutcome,  \* what originFetch did: the Response it resolved with, or the error it threw
    formatOptions,   \* the options formatOriginResp handed to parseOriginResponse
    proxyResponse,  \* Response produced by the proxy stage
    hookLog,        \* collector callbacks invoked during this request
    response,       \* what the caller of the pipeline receives
    now,            \* Date.now()
    started_at,     \* createReportCollector: started_at
    context,        \* createReportCollector: the ReportContext with its three slots
    reportOptions,  \* createReportCollector: options
    shaping,        \* the payload as onResponseParsed saw it, and the options it was shaped with
    collectCall,    \* the Response handed to collect, and collect_at
    report,         \* what collect resolved with
    originURL,      \* proxy(parsedRequest, config): config.originURL
    clientHeaders,  \* proxy(parsedRequest, config): parsedRequest.headers
    requestHeaders, \* proxy(parsedRequest, config): the headers handed to originFetch
    parseCall,      \* the last call of utils.parse made by any caller, with its outcome
    admissionSteps, \* the steps of signature admission run for this request, in order
    runs            \* two invocations of handle in flight, each with its locals and its collector

pipelineVars == <<cfg, validateMap, setValidateFnCall, documentMap, normalizedMap, pc, entry, req,
                  parsed, validatorCalls, originCalls, originOutcome, formatOptions,
                  proxyResponse, hookLog, response>>
reportVars == <<now, started_at, reportOptions, context, shaping, collectCall, report>>
headerVars == <<originURL, clientHeaders, requestHeaders>>

memoVars == <<parseCall>>
stepVars == <<admissionSteps>>
runVars == <<runs>>

vars == <<pipelineVars, reportVars, headerVars, memoVars, stepVars, runVars>>

-----------------------------------------------------------------------------
(* JavaScript values *)

\* the value null of Headers.get and of optional configuration
Null == <<"<null>">>

JUndefined == [t |-> "undefined", v |-> << >>]
JNull == [t |-> "null", v |-> << >>]
JString(s) == [t |-> "string", v |-> s]
JNumber(n) == [t |-> "number", v |-> <<n>>]
JObject(s) == [t |-> "object", v |-> s]
JArray(s) == [t |-> "array", v |-> s]
JBoolean(b) == [t |-> "boolean", v |-> <<b>>]

\* x ?? y
Coalesce(x, y) == IF x.t \in {"undefined", "null"} THEN y ELSE x

\* Boolean(x) of a JSON value
Truthy(x) ==
    /\ x.t \notin {"undefined", "null"}
    /\ ~(x.t = "string" /\ x.v = << >>)
    /\ ~(x.t = "number" /\ x.v = <<"0">>)
    /\ ~(x.t = "boolean" /\ x.v = <<"false">>)

\* Boolean(s) of a value that is a string or null
TruthyStr(s) == s # Null /\ s # << >>

-----------------------------------------------------------------------------
(* Digests *)

\* crypto.subtle.digest('SHA-256', ...) followed by bufferToHex
Sha256Hex(message) == <<"sha256:">> \o message

\* crypto.subtle.sign('HMAC', key, message) followed by bufferToHex; a key is
\* the pair of its raw secret and its hash algorithm
HmacHex(secret, algorithm, message) == <<"hmac:", algorithm>> \o secret \o <<":">> \o message

hmacHex(secretKey, message) == HmacHex(secretKey.secret, secretKey.hash, message)

\* keys that generateRandomSecretKey() can return (algorithm defaults to SHA-1)
RandomKeys == {[secret |-> <<"rnd1">>, hash |-> "SHA-1"], [secret |-> <<"rnd2">>, hash |-> "SHA-1"]}

\* variant: only the digest prefix and the length are compared
webTimingSafeEqual_Prefix(secretKey, left, right) ==
    /\ Len(left) = Len(right)
    /\ left # << >> => Head(left) = Head(right)

webTimingSafeEqual(secretKey, left, right) ==
    hmacHex(secretKey, left) = hmacHex(secretKey, right)

getHMACFromQuery(stableQuery, secret, algorithm) ==
    hmacHex([secret |-> secret, hash |-> algorithm], stableQuery)

-----------------------------------------------------------------------------
(* GraphQL documents: graphql's parse and graphql-tools' printer *)

Names == {"a", "b", "c", "d", "me"}
NameOrder == <<"a", "b", "c", "d", "me">>
OperationKeywords == {"query", "mutation", "subscription"}

\* whitespace, commas and comments are ignored by the lexer
IsIgnored(lexeme) == lexeme \in {" ", ",", "#comment\n"}

Lex(text) == SelectSeq(text, LAMBDA l : ~IsIgnored(l))

IsSelectionSet(toks) ==
    /\ Len(toks) >= 3
    /\ toks[1] = "{"
    /\ toks[Len(toks)] = "}"
    /\ \A i \in 2..(Len(toks) - 1) : toks[i] \in Names

\* the AST of a token sequence, or "syntax" when it is not a document
ParseTokens(toks) ==
    IF IsSelectionSet(toks)
    THEN [ok |-> TRUE, operation |-> "query", name |-> << >>,
          fields |-> SubSeq(toks, 2, Len(toks) - 1)]
    ELSE IF Len(toks) >= 1 /\ toks[1] \in OperationKeywords /\ IsSelectionSet(Tail(toks))
    THEN [ok |-> TRUE, operation |-> toks[1], name |-> << >>,
          fields |-> SubSeq(toks, 3, Len(toks) - 1)]
    ELSE IF /\ Len(toks) >= 2
            /\ toks[1] \in OperationKeywords
            /\ toks[2] \in Names
            /\ IsSelectionSet(Tail(Tail(toks)))
    THEN [ok |-> TRUE, operation |-> toks[1], name |-> <<toks[2]>>,
          fields |-> SubSeq(toks, 4, Len(toks) - 1)]
    ELSE [ok |-> FALSE, operation |-> "", name |-> << >>, fields |-> << >>]

\* variant: the document is printed as it was written
printExecutableGraphQLDocument_Verbatim(doc) == doc.id

\* graphql parse(input, {maxTokens}): throws on a syntax error and when the
\* document has more than maxTokens tokens
GraphqlParseThrows(input, maxTokens) ==
    \/ input.t # "string"
    \/ ~ParseTokens(Lex(input.v)).ok
    \/ Len(Lex(input.v)) > maxTokens

\* a DocumentNode; id is the object identity (one object per parsed input)
GraphqlParse(input) ==
    LET ast == ParseTokens(Lex(input.v))
    IN  [id |-> input.v, operation |-> ast.operation, name |-> ast.name, fields |-> ast.fields]

NameRank(n) == CHOOSE i \in 1..Len(NameOrder) : NameOrder[i] = n

RECURSIVE InsertSorted(_, _)
InsertSorted(sorted, n) ==
    IF sorted = << >> THEN <<n>>
    ELSE IF NameRank(n) < NameRank(Head(sorted)) THEN <<n>> \o sorted
    ELSE <<Head(sorted)>> \o InsertSorted(Tail(sorted), n)

RECURSIVE SortFields(_)
SortFields(fields) ==
    IF fields = << >> THEN << >>
    ELSE InsertSorted(SortFields(Tail(fields)), Head(fields))

RECURSIVE JoinSpaced(_)
JoinSpaced(toks) ==
    IF Len(toks) <= 1 THEN toks
    ELSE <<Head(toks), " ">> \o JoinSpaced(Tail(toks))

\* printExecutableGraphQLDocument: selections sorted by name, single spaces,
\* no comments; an anonymous query prints as a bare selection set
printExecutableGraphQLDocument(doc) ==
    LET head == IF doc.operation = "query" /\ doc.name = << >> THEN << >>
                ELSE <<doc.operation>> \o doc.name
    IN  JoinSpaced(head \o <<"{">> \o SortFields(doc.fields) \o <<"}">>)

-----------------------------------------------------------------------------
(* utils.ts: memoized parse and canonical print *)

\* parse(input, maxTokens): a memo hit returns the stored document whatever
\* maxTokens is; a miss parses and stores when the parser does not throw
parse(input, maxTokens, dmap) ==
    IF input.t = "string" /\ input.v \in DOMAIN dmap
    THEN [throws |-> FALSE, document |-> dmap[input.v], documentMap |-> dmap]
    ELSE IF GraphqlParseThrows(input, maxTokens)
    THEN [throws |-> TRUE, document |-> GraphqlParse(JString(<< >>)), documentMap |-> dmap]
    ELSE [throws |-> FALSE, document |-> GraphqlParse(input),
          documentMap |-> [t \in DOMAIN dmap \cup {input.v} |->
                              IF t = input.v THEN GraphqlParse(input) ELSE dmap[t]]]

\* variant: one memo slot for all documents
printNormalized_Unkeyed(doc, nmap) ==
    IF DOMAIN nmap # {}
    THEN [value |-> nmap[CHOOSE d \in DOMAIN nmap : TRUE], normalizedMap |-> nmap]
    ELSE [value |-> printExecutableGraphQLDocument(doc),
          normalizedMap |-> [d \in {doc} |-> printExecutableGraphQLDocument(doc)]]

printNormalized(doc, nmap) ==
    IF doc \in DOMAIN nmap
    THEN [value |-> nmap[doc], normalizedMap |-> nmap]
    ELSE [value |-> printExecutableGraphQLDocument(doc),
          normalizedMap |-> [d \in DOMAIN nmap \cup {doc} |->
                                IF d = doc THEN printExecutableGraphQLDocument(doc) ELSE nmap[d]]]

-----------------------------------------------------------------------------
(* Requests and parse results *)

OPERATION_HEADER_KEY == <<"x-proxy-op-hash">>
PASSTHROUGH_HEADER_KEY == <<"x-proxy-pass-secret">>

getOperationHashFromHeader(request) == request.headers.ophash
getPassThroughSecretFromHeader(request) == request.headers.pass

\* request.json() rejects when the body is absent or is not JSON
JsonThrows(request) == request.body.json = "invalid"

\* body.<field>: a TypeError when the body is the JSON value null, undefined
\* when the body is a JSON value without that property
PropertyThrows(request) == request.body.json = "null"
Property(request, field) ==
    IF request.body.json = "object" THEN request.body[field] ELSE JUndefined

createError(code, message) == [kind |-> "error", code |-> code, message |-> message]

Thrown(message) == [kind |-> "throw", message |-> message]

isParsedError(p) == p.kind = "error"

-----------------------------------------------------------------------------
(* signature.ts *)

\* variant: the header is compared to the configured hash without digesting it
isPassthroughRequest_NoDigest(request, passThroughHash) ==
    LET passThroughHeaderValue == getPassThroughSecretFromHeader(request)
    IN  IF ~TruthyStr(passThroughHeaderValue) THEN FALSE
        ELSE passThroughHash = passThroughHeaderValue

isPassthroughRequest(request, passThroughHash) ==
    LET passThroughHeaderValue == getPassThroughSecretFromHeader(request)
    IN  IF ~TruthyStr(passThroughHeaderValue) THEN FALSE
        ELSE passThroughHash = Sha256Hex(passThroughHeaderValue)

\* typeof sign_secret === 'string' ? sign_secret : sign_secret.secret
SignSecretOf(sign_secret) == sign_secret.secret

\* variant: the configured algorithm is ignored
SignAlgorithmOf_Default(sign_secret) == "SHA-256"

\* typeof sign_secret === 'object' ? sign_secret.algorithm : 'SHA-256'
SignAlgorithmOf(sign_secret) ==
    IF sign_secret.t = "object" THEN sign_secret.algorithm ELSE "SHA-256"

\* variant: an absent secret still demands a signature
SignSecretSet_Always(sign_secret) == TRUE

\* Boolean(sign_secret): null and the empty string are falsy
SignSecretSet(sign_secret) ==
    /\ sign_secret.t # "null"
    /\ ~(sign_secret.t = "string" /\ sign_secret.secret = << >>)

\* variant: no early check of the header's presence
SignatureMissing_Never(isPassThrough, sign_secret, hashHeader) == FALSE

\* if (!isPassThrough && sign_secret) { if (!hashHeader) ... }
SignatureMissing(isPassThrough, sign_secret, hashHeader) ==
    ~isPassThrough /\ SignSecretSet(sign_secret) /\ ~TruthyStr(hashHeader)

\* the function returned by createSignatureParseFn(config), applied to a
\* request; randomKey is the key generateRandomSecretKey() returns
parseRequest(config, request, randomKey, dmap, nmap) ==
    LET isPassThrough == isPassthroughRequest(request, config.passThroughHash)
        hashHeader == getOperationHashFromHeader(request)
        sign_secret == config.signSecret
        checked == ~isPassThrough /\ SignSecretSet(sign_secret)
        query == Property(request, "query")
        doc == parse(query, config.maxTokens, dmap)
        stable == printNormalized(doc.document, nmap)
        value == getHMACFromQuery(stable.value, SignSecretOf(sign_secret), SignAlgorithmOf(sign_secret))
        verified == hashHeader # Null /\ webTimingSafeEqual(randomKey, hashHeader, value)
        unchanged == [documentMap |-> dmap, normalizedMap |-> nmap]
        presence == IF checked THEN <<"header presence">> ELSE << >>
        toHeader == <<"passthrough">> \o presence
        toBody == toHeader \o <<"body decode">>
        toParse == toBody \o <<"parse and canonicalize">>
        toHMAC == toParse \o (IF checked THEN <<"HMAC comparison">> ELSE << >>)
        Out(p, m, s) == [parsed |-> p, documentMap |-> m.documentMap,
                         normalizedMap |-> m.normalizedMap, steps |-> s]
    IN  IF SignatureMissing(isPassThrough, sign_secret, hashHeader)
        THEN Out(createError(403, <<"signature not defined">>), unchanged, toHeader)
        ELSE IF JsonThrows(request)
        THEN Out(createError(403, <<"not valid body">>), unchanged, toBody)
        ELSE IF PropertyThrows(request)
        THEN Out(Thrown(<<"TypeError">>), unchanged, toBody)
        ELSE IF ~Truthy(query)
        THEN Out(createError(403, <<"Missing query in body">>), unchanged, toBody)
        ELSE IF doc.throws
        THEN Out(createError(403, <<"cannot parse query">>), unchanged, toParse)
        ELSE IF checked /\ ~verified
        THEN Out(createError(403, <<"Invalid ">> \o OPERATION_HEADER_KEY \o <<" header">>),
                 [documentMap |-> doc.documentMap, normalizedMap |-> stable.normalizedMap],
                 toHMAC)
        ELSE Out([kind |-> "request",
                  query |-> query,
                  operationName |-> Property(request, "operationName"),
                  variables |-> Property(request, "variables"),
                  headers |-> request.headers,
                  isPassthrough |-> isPassThrough],
                 [documentMap |-> doc.documentMap, normalizedMap |-> stable.normalizedMap],
                 toHMAC)

-----------------------------------------------------------------------------
(* operations.ts: operation store *)

\* opsMap of createOperationStore(operations); a later entry replaces an
\* earlier one of the same name; {} stands for "no entry"
RECURSIVE opsMap(_)
opsMap(operations) ==
    IF operations = << >> THEN {}
    ELSE LET oper == operations[Len(operations)]
             rest == opsMap(SubSeq(operations, 1, Len(operations) - 1))
         IN  {d \in rest : d.operationName # oper.operationName}
                 \cup {[behaviour |-> oper.behaviour,
                        operation |-> oper.operationType,
                        operationName |-> oper.operationName,
                        query |-> oper.query]}

\* getOperation(operation): the set of definitions stored under that key
getOperation(operations, operation) ==
    {d \in opsMap(operations) : d.operationName = operation}

getOperations(operations) == opsMap(operations)

\* getValidateFn(operationName): Null when the map has no entry
getValidateFn(vmap, operationName) ==
    IF operationName \in DOMAIN vmap THEN vmap[operationName] ELSE "none"

\* validateMap.delete(name)
MapDelete(vmap, name) == [n \in DOMAIN vmap \ {name} |-> vmap[n]]

\* validateMap.set(name, handler)
MapSet(vmap, name, handler) ==
    [n \in DOMAIN vmap \cup {name} |-> IF n = name THEN handler ELSE vmap[n]]

\* variant: the handler is stored before the name is looked up
setValidateFn_SetFirst(operations, vmap, operationName, handler) ==
    IF handler = "none"
    THEN [validateMap |-> MapDelete(vmap, operationName), thrown |-> Null]
    ELSE IF getOperation(operations, operationName) = {}
    THEN [validateMap |-> MapSet(vmap, operationName, handler),
          thrown |-> operationName \o <<" not registered">>]
    ELSE [validateMap |-> MapSet(vmap, operationName, handler), thrown |-> Null]

\* setValidateFn(operationName, handler): "none" stands for null; the map
\* afterwards and the message of the Error thrown, or Null
setValidateFn(operations, vmap, operationName, handler) ==
    IF handler = "none"
    THEN [validateMap |-> MapDelete(vmap, operationName), thrown |-> Null]
    ELSE IF getOperation(operations, operationName) = {}
    THEN [validateMap |-> vmap, thrown |-> operationName \o <<" not registered">>]
    ELSE [validateMap |-> MapSet(vmap, operationName, handler), thrown |-> Null]

\* the validators an application registers; each is a function of the
\* definition and the parsed request
Validators == {"requireAbc", "rejectEmpty", "thrower"}

\* validateFn(def, result, ctx): "none" for undefined, an error with its
\* message, or a thrown exception
RunValidator(handler, def, result) ==
    CASE handler = "requireAbc" ->
            IF result.variables = JObject(<<"v1", "abc">>)
            THEN [t |-> "undefined", message |-> JUndefined]
            ELSE [t |-> "error", message |-> JString(<<"not valid input">>)]
      [] handler = "rejectEmpty" -> [t |-> "error", message |-> JString(<< >>)]
      [] handler = "thrower" -> [t |-> "throw", message |-> JString(<<"boom">>)]

-----------------------------------------------------------------------------
(* operations.ts: extraction and store admission *)

\* JSON.parse(text): an object text is <<"{", key, ":", value, "}">>
JSONParseThrows(text) == ~(Len(text) = 5 /\ text[1] = "{" /\ text[3] = ":" /\ text[5] = "}")
JSONParse(text) == JObject(<<text[2], text[4]>>)

\* JSON.stringify(object)
JSONStringify(obj) == <<"{", obj.v[1], ":", obj.v[2], "}">>

fromPostRequest(request) ==
    [operation |-> Coalesce(Property(request, "op"),
                   Coalesce(Property(request, "operationName"),
                   Coalesce(Property(request, "operation"), Property(request, "query")))),
     variables |-> Coalesce(Property(request, "v"), Property(request, "variables"))]

\* the variables of fromGetRequest before JSON.parse
GetVariablesText(query) == Coalesce(query.v, query.variables)

fromGetRequest(query) ==
    LET variables == GetVariablesText(query)
    IN  [operation |-> Coalesce(query.op, Coalesce(query.operation, query.query)),
         variables |-> IF Truthy(variables)
                       THEN (IF variables.t = "string" THEN JSONParse(variables.v) ELSE variables)
                       ELSE JUndefined]

\* defaultExtractFn: the message of the exception it throws, or Null
ExtractThrows(request) ==
    IF request.method = "POST"
    THEN (IF JsonThrows(request) THEN <<"Unexpected token in JSON">>
          ELSE IF PropertyThrows(request) THEN <<"Cannot read properties of null">>
          ELSE Null)
    ELSE IF request.method = "GET"
    THEN (IF /\ Truthy(GetVariablesText(request.params))
             /\ GetVariablesText(request.params).t = "string"
             /\ JSONParseThrows(GetVariablesText(request.params).v)
          THEN <<"Unexpected token in JSON">>
          ELSE Null)
    ELSE <<"method not supported">>

defaultExtractFn(request) ==
    IF request.method = "POST" THEN fromPostRequest(request) ELSE fromGetRequest(request.params)

\* variant: any truthy value is taken as an operation name
IsOperationName_Truthy(operation) == Truthy(operation)

\* !(!operation || typeof operation !== 'string')
IsOperationName(operation) == Truthy(operation) /\ operation.t = "string"

\* variant: the query text is taken from the request body
StoreResult_ClientQuery(def, request, extracted) ==
    [kind |-> "request",
     headers |-> request.headers,
     query |-> Coalesce(Property(request, "query"), JString(def.query)),
     operationName |-> JString(def.operationName),
     variables |-> extracted.variables,
     def |-> def]

\* the ParsedResult built from the resolved definition
StoreResult(def, request, extracted) ==
    [kind |-> "request",
     headers |-> request.headers,
     query |-> JString(def.query),
     operationName |-> JString(def.operationName),
     variables |-> extracted.variables,
     def |-> def]

\* variant: the validator runs but its verdict is dropped
Validate_Ignored(validateFn, def, result) ==
    LET error == RunValidator(validateFn, def, result)
        call == <<[def |-> def, query |-> result.query, operationName |-> result.operationName,
                   returned |-> error]>>
    IN  IF validateFn = "none"
        THEN [parsed |-> result, calls |-> << >>]
        ELSE IF error.t = "throw"
        THEN [parsed |-> Thrown(error.message.v), calls |-> call]
        ELSE [parsed |-> result, calls |-> call]

\* if (validateFn) { error = validateFn(def, result, ctx); if (error) return createError(400, ...) }
\* return result
Validate(validateFn, def, result) ==
    LET error == RunValidator(validateFn, def, result)
        call == <<[def |-> def, query |-> result.query, operationName |-> result.operationName,
                   returned |-> error]>>
    IN  IF validateFn = "none"
        THEN [parsed |-> result, calls |-> << >>]
        ELSE IF error.t = "throw"
        THEN [parsed |-> Thrown(error.message.v), calls |-> call]
        ELSE IF error.t = "error"
        THEN [parsed |-> createError(400, Coalesce(error.message, JString(<<"input validation">>)).v),
              calls |-> call]
        ELSE [parsed |-> result, calls |-> call]

\* the function returned by createOperationParseFn(operationStore), applied
\* to a request; calls lists the validator invocations it made
parseOperation(operations, vmap, request) ==
    LET extracted == defaultExtractFn(request)
        operation == extracted.operation
        defs == getOperation(operations, operation.v)
        def == CHOOSE d \in defs : TRUE
        validateFn == getValidateFn(vmap, def.operationName)
        result == StoreResult(def, request, extracted)
    IN  IF ExtractThrows(request) # Null
        THEN [parsed |-> createError(404, ExtractThrows(request)), calls |-> << >>]
        ELSE IF ~IsOperationName(operation)
        THEN [parsed |-> createError(404, <<"no operation defined">>), calls |-> << >>]
        ELSE IF defs = {}
        THEN [parsed |-> createError(404, <<"operation ">> \o operation.v \o <<" not found">>),
              calls |-> << >>]
        ELSE Validate(validateFn, def, result)

-----------------------------------------------------------------------------
(* index.ts: responses, proxy stage and response shaping *)

Includes(str, part) == \E i \in 1..Len(str) : str[i] = part

\* JSON.stringify(value) as a response body, and a plain text body
\* a JSON object of the shapes the proxy handles; an absent key is undefined
NoErrors == [t |-> "undefined", items |-> << >>]
EmptyObject == [message |-> JUndefined, data |-> JUndefined, errors |-> NoErrors,
                extensions |-> JUndefined]

JsonBody(v) == [enc |-> "json", text |-> << >>, value |-> v]
TextBody(text) == [enc |-> "text", text |-> text, value |-> EmptyObject]

\* Response.ok
ResponseOk(resp) == resp.status >= 200 /\ resp.status <= 299

createErrorResponse(message, code) ==
    [kind |-> "response",
     status |-> code,
     contentType |-> <<"application/json">>,
     body |-> JsonBody([EmptyObject EXCEPT !.message = JString(message)])]

createParseErrorResponse(error) == createErrorResponse(error.message, error.code)

\* ErrorRegex = /Did you mean ".+"/g over a message split into atoms: the
\* literal opening, a double quote, a line break, and runs of other text
SuggestionOpen == "Did you mean \""
Quote == "\""
LineBreak == "\n"

\* the end of the match that starts at position i, or 0: the opening, at
\* least one atom, and the last quote before the end of the line
MatchEnd(message, i) ==
    IF message[i] # SuggestionOpen THEN 0
    ELSE LET breaks == {k \in (i + 1)..Len(message) : message[k] = LineBreak}
             lineEnd == IF breaks = {} THEN Len(message) + 1
                        ELSE CHOOSE k \in breaks : \A l \in breaks : k <= l
             quotes == {k \in (i + 2)..(lineEnd - 1) : message[k] = Quote}
         IN  IF quotes = {} THEN 0 ELSE CHOOSE k \in quotes : \A l \in quotes : k >= l

\* ErrorRegex.test(message)
MatchesErrorRegex(message) == \E i \in 1..Len(message) : MatchEnd(message, i) # 0

\* variant: only the first match is replaced (a regex without the g flag)
RECURSIVE maskError_FirstOnly(_, _)
maskError_FirstOnly(message, mask) ==
    LET starts == {i \in 1..Len(message) : MatchEnd(message, i) # 0}
        first == CHOOSE i \in starts : \A k \in starts : i <= k
    IN  IF starts = {} THEN message
        ELSE SubSeq(message, 1, first - 1) \o mask
                 \o SubSeq(message, MatchEnd(message, first) + 1, Len(message))

\* error.message.replace(ErrorRegex, mask): every match, left to right
RECURSIVE maskError(_, _)
maskError(message, mask) ==
    LET starts == {i \in 1..Len(message) : MatchEnd(message, i) # 0}
        first == CHOOSE i \in starts : \A k \in starts : i <= k
    IN  IF starts = {} THEN message
        ELSE SubSeq(message, 1, first - 1) \o mask
                 \o maskError(SubSeq(message, MatchEnd(message, first) + 1, Len(message)), mask)

\* hasErrors(errors)
hasErrors(errors) == errors.t = "array"

\* parseOriginResponse(gqlResponse, originResponse, formatOptions)
parseOriginResponse(gqlResponse, originResponse, parseOptions) ==
    LET errors == gqlResponse.errors
        masked == IF TruthyStr(parseOptions.errorMasking) /\ hasErrors(errors)
                  THEN [t |-> "array",
                        items |-> [i \in 1..Len(errors.items) |->
                                      IF errors.items[i] # << >>
                                      THEN maskError(errors.items[i], parseOptions.errorMasking)
                                      ELSE errors.items[i]]]
                  ELSE errors
        extensions == IF parseOptions.removeExtensions /\ Truthy(gqlResponse.extensions)
                      THEN JUndefined
                      ELSE gqlResponse.extensions
    IN  [kind |-> "response",
         status |-> 200,
         contentType |-> <<"application/json", "; charset=utf-8">>,
         body |-> JsonBody([gqlResponse EXCEPT !.errors = masked, !.extensions = extensions])]

\* the options createGraphQLProxy passes to parseOriginResponse by default
DefaultParseOptions == [errorMasking |-> <<"[Suggestion hidden]">>, removeExtensions |-> FALSE]

\* the options a formatOriginResp supplied by the application may pass; an
\* empty errorMasking stands for no masking rule
ParseOptionsChoices ==
    {DefaultParseOptions,
     [errorMasking |-> <<"[Suggestion hidden]">>, removeExtensions |-> TRUE],
     [errorMasking |-> << >>, removeExtensions |-> TRUE]}

\* Headers: a map from lower-cased names to values; the names the code writes
\* with capitals are the same names
LowerCased ==
    [n \in {"Host", "X-Forwarded-Proto", "X-Forwarded-Host", "X-Forwarded-For"} |->
        CASE n = "Host" -> "host"
          [] n = "X-Forwarded-Proto" -> "x-forwarded-proto"
          [] n = "X-Forwarded-Host" -> "x-forwarded-host"
          [] n = "X-Forwarded-For" -> "x-forwarded-for"]
HeaderKey(name) == IF name \in DOMAIN LowerCased THEN LowerCased[name] ELSE name

\* headers.get(name), headers.set(name, value), headers.delete(name)
HeadersGet(headers, name) ==
    IF HeaderKey(name) \in DOMAIN headers THEN headers[HeaderKey(name)] ELSE Null
HeadersSet(headers, name, value) == MapSet(headers, HeaderKey(name), value)
HeadersDelete(headers, name) == MapDelete(headers, HeaderKey(name))

\* variant: the address of the client always wins
applyForwardedHeaders_Overwrite(headers) ==
    LET h1 == IF ~TruthyStr(HeadersGet(headers, "X-Forwarded-Proto"))
              THEN HeadersSet(headers, "X-Forwarded-Proto", <<"https">>)
              ELSE headers
        host == HeadersGet(h1, "Host")
        h2 == IF host # Null THEN HeadersSet(h1, "X-Forwarded-Host", host) ELSE h1
        ip == IF HeadersGet(h2, "cf-connecting-ip") # Null
              THEN HeadersGet(h2, "cf-connecting-ip")
              ELSE HeadersGet(h2, "x-real-ip")
    IN  IF ip # Null THEN HeadersSet(h2, "X-Forwarded-For", ip) ELSE h2

\* applyForwardedHeaders(requestHeaders)
applyForwardedHeaders(headers) ==
    LET h1 == IF ~TruthyStr(HeadersGet(headers, "X-Forwarded-Proto"))
              THEN HeadersSet(headers, "X-Forwarded-Proto", <<"https">>)
              ELSE headers
        host == HeadersGet(h1, "Host")
        h2 == IF host # Null THEN HeadersSet(h1, "X-Forwarded-Host", host) ELSE h1
        ip == IF HeadersGet(h2, "cf-connecting-ip") # Null
              THEN HeadersGet(h2, "cf-connecting-ip")
              ELSE HeadersGet(h2, "x-real-ip")
        forwardedForHeader == HeadersGet(h2, "X-Forwarded-For")
    IN  IF ip # Null /\ forwardedForHeader = Null
        THEN HeadersSet(h2, "X-Forwarded-For", ip)
        ELSE h2

\* new URL(originURL).origin: the port is left out when it is the scheme's own
DefaultPort(scheme) == IF scheme = "https" THEN "443" ELSE "80"
URLOrigin(url) ==
    <<url.scheme, "://", url.host>>
    \o (IF url.port \in {"", DefaultPort(url.scheme)}
        THEN << >>
        ELSE <<":", url.port>>)

\* the headers proxy() hands to originFetch
proxyRequestHeaders(headers, url) ==
    LET withOrigin == HeadersSet(headers, "origin", URLOrigin(url))
        withType == HeadersSet(withOrigin, "content-type", <<"application/json">>)
        forwarded == applyForwardedHeaders(withType)
    IN  HeadersDelete(HeadersDelete(HeadersDelete(forwarded, "content-length"),
                                    "content-encoding"), "host")

\* the request proxy() hands to originFetch
OriginRequest(parsedRequest) ==
    [query |-> parsedRequest.query,
     operationName |-> parsedRequest.operationName,
     variables |-> parsedRequest.variables]

\* variant: only the status is looked at
parseResponseFails_StatusOnly(resp) == ~ResponseOk(resp)

\* _parseProxy(proxyResponse) returns null instead of the decoded payload
parseResponseFails(resp) ==
    \/ ~ResponseOk(resp)
    \/ ~(Includes(resp.contentType, "application/json")
         \/ Includes(resp.contentType, "application/graphql-response+json"))
    \/ resp.body.enc # "json"

-----------------------------------------------------------------------------
(* reporting.ts: the report collector *)

\* no value yet
None == [kind |-> "none"]

\* a JSON tree: a scalar, null or undefined (no kids), an object (keys and
\* their values) or an array (its elements)
Leaf(t) == [t |-> t, keys |-> << >>, kids |-> << >>]
TObject(keys, kids) == [t |-> "object", keys |-> keys, kids |-> kids]
TArray(kids) == [t |-> "array", keys |-> << >>, kids |-> kids]

\* map.get(path) ?? 0
MapCount(map, path) == IF path \in DOMAIN map THEN map[path] ELSE 0

\* variant: an array counts once, whatever its length
RECURSIVE calculateResponse_ArrayOnce(_, _, _)
RECURSIVE WalkElements_ArrayOnce(_, _, _, _)
RECURSIVE WalkKeys_ArrayOnce(_, _, _, _)
WalkElements_ArrayOnce(item, i, path, map) ==
    IF i > Len(item.kids) THEN map
    ELSE WalkElements_ArrayOnce(item, i + 1, path,
                                calculateResponse_ArrayOnce(item.kids[i], path, map))
WalkKeys_ArrayOnce(item, i, path, map) ==
    IF i > Len(item.keys) THEN map
    ELSE WalkKeys_ArrayOnce(item, i + 1, path,
                            calculateResponse_ArrayOnce(item.kids[i],
                                                        path \o <<".", item.keys[i]>>, map))
calculateResponse_ArrayOnce(item, path, map) ==
    IF item.t = "undefined" THEN map
    ELSE IF item.t = "array"
    THEN WalkElements_ArrayOnce(item, 1, path, MapSet(map, path, MapCount(map, path) + 1))
    ELSE IF item.t = "object"
    THEN WalkKeys_ArrayOnce(item, 1, path, map)
    ELSE MapSet(map, path, MapCount(map, path) + 1)

\* calculateResponse(item, path, map), with its two loops
RECURSIVE calculateResponse(_, _, _)
RECURSIVE WalkElements(_, _, _, _)
RECURSIVE WalkKeys(_, _, _, _)
\* for (; i < arrLength; ++i) calculateResponse(item[i], path, map)
WalkElements(item, i, path, map) ==
    IF i > Len(item.kids) THEN map
    ELSE WalkElements(item, i + 1, path, calculateResponse(item.kids[i], path, map))
\* for (; i < keyLength; ++i) calculateResponse(item[key], path + '.' + key, map)
WalkKeys(item, i, path, map) ==
    IF i > Len(item.keys) THEN map
    ELSE WalkKeys(item, i + 1, path,
                  calculateResponse(item.kids[i], path \o <<".", item.keys[i]>>, map))
calculateResponse(item, path, map) ==
    IF item.t = "undefined" THEN map
    ELSE IF item.t = "array"
    THEN WalkElements(item, 1, path, MapSet(map, path, MapCount(map, path) + Len(item.kids)))
    ELSE IF item.t = "object"
    THEN WalkKeys(item, 1, path, map)
    ELSE MapSet(map, path, MapCount(map, path) + 1)

\* !data of a JSON tree: only strings, numbers and booleans can be falsy
\* besides null and undefined
FalsyLeaf(data) == data.t \in {"undefined", "null", "zero", "empty string", "false"}

\* calculateResponseMap(data)
calculateResponseMap(data) ==
    IF FalsyLeaf(data) \/ data.t \notin {"object", "array"}
    THEN << >>
    ELSE calculateResponse(data, <<"$">>, << >>)

\* new TextEncoder().encode(text).byteLength of a text of ASCII atoms
RECURSIVE ByteLength(_)
ByteLength(text) ==
    IF text = << >> THEN 0 ELSE Len(Head(text)) + ByteLength(Tail(text))

\* calculateSize(json) of the variables of a parsed request
calculateSize(json) ==
    IF ~Truthy(json) THEN 0
    ELSE ByteLength(<<"{", Quote, json.v[1], Quote, ":", Quote, json.v[2], Quote, "}">>)

\* a JavaScript number: NaN, or an integer part and the digits after the point
NaN == [nan |-> TRUE, int |-> 0, frac |-> << >>]
Number(n) == [nan |-> FALSE, int |-> n, frac |-> << >>]

Digits == <<"0", "1", "2", "3", "4", "5", "6", "7", "8", "9">>
IsDigit(c) == \E i \in 1..Len(Digits) : Digits[i] = c
DigitValue(c) == (CHOOSE i \in 1..Len(Digits) : Digits[i] = c) - 1

RECURSIVE DecimalValue(_)
DecimalValue(s) ==
    IF s = << >> THEN 0
    ELSE 10 * DecimalValue(SubSeq(s, 1, Len(s) - 1)) + DigitValue(s[Len(s)])

RECURSIVE StripZeros(_)
StripZeros(s) ==
    IF s # << >> /\ s[Len(s)] = "0" THEN StripZeros(SubSeq(s, 1, Len(s) - 1)) ELSE s

\* +value of a header value, a string of characters: the empty string is 0,
\* a decimal literal is its value, anything else is NaN
StringToNumber(s) ==
    LET points == {i \in 1..Len(s) : s[i] = "."}
        point == CHOOSE i \in points : TRUE
    IN  IF s = << >> THEN Number(0)
        ELSE IF \A i \in 1..Len(s) : IsDigit(s[i]) THEN Number(DecimalValue(s))
        ELSE IF /\ Cardinality(points) = 1
                /\ Len(s) > 1
                /\ \A i \in 1..Len(s) : i \in points \/ IsDigit(s[i])
        THEN [nan |-> FALSE,
              int |-> DecimalValue(SubSeq(s, 1, point - 1)),
              frac |-> StripZeros(SubSeq(s, point + 1, Len(s)))]
        ELSE NaN

\* +(clonedResponse.headers.get('content-size') ?? buffer.byteLength)
responseSize(clonedResponse) ==
    IF clonedResponse.contentSize = Null
    THEN Number(ByteLength(clonedResponse.text))
    ELSE StringToNumber(clonedResponse.contentSize)

\* an element of the errors of a report: an upstream error with its message,
\* an object made by the collector, or whatever JSON.parse made of the body
ErrorItem(message, status, json) == [message |-> message, status |-> status, json |-> json]

\* responseTextToError(responseText, status)
responseTextToError(responseText, status) ==
    IF JSONParseThrows(responseText)
    THEN ErrorItem(<<"cannot parse error: ", ToString(status)>>, <<ToString(status)>>, JUndefined)
    ELSE ErrorItem(<< >>, << >>, JSONParse(responseText))

\* createEmptyReportContext()
createEmptyReportContext == [parsed |-> None, proxy |-> None, response |-> None]

NoReportErrors == [t |-> "undefined", items |-> << >>]
ReportErrors(items) == [t |-> "array", items |-> items]

\* the errors of gqlResponse.resp as the elements of a report
UpstreamErrors(errors) ==
    ReportErrors([i \in 1..Len(errors.items) |-> ErrorItem(errors.items[i], << >>, JUndefined)])

Durations(parsing, proxying, processing, total) ==
    [parsing |-> parsing, proxying |-> proxying, processing |-> processing, total |-> total]

\* collect: the errors of the report of an admitted request
reportErrors(gqlResponse, clonedResponse) ==
    IF gqlResponse # None /\ gqlResponse.resp.errors.t = "array"
       /\ Len(gqlResponse.resp.errors.items) > 0
    THEN UpstreamErrors(gqlResponse.resp.errors)
    ELSE IF clonedResponse.status > 400
    THEN ReportErrors(<<responseTextToError(clonedResponse.text, clonedResponse.status)>>)
    ELSE NoReportErrors

\* collect: ok of the report of an admitted request
reportOk(gqlResponse, clonedResponse) ==
    /\ clonedResponse.status >= 200
    /\ clonedResponse.status < 400
    /\ gqlResponse # None
    /\ gqlResponse.resp.data.t # "undefined"
    /\ \/ gqlResponse.resp.errors.t = "undefined"
       \/ gqlResponse.resp.errors.t = "array" /\ Len(gqlResponse.resp.errors.items) = 0

\* variant: the report of a rejected request carries the other stages' times
parseErrorReport_WithStages(ctx, clonedResponse, size, parsing, total, collect_at) ==
    [kind |-> "report",
     ok |-> FALSE,
     response_size |-> size,
     response_map |-> None,
     inputSize |-> 0,
     errors |-> ReportErrors(<<ErrorItem(<<"cannot parse: ">> \o ctx.parsed.parsed.message,
                                         << >>, JUndefined)>>),
     operationName |-> JUndefined,
     originStatus |-> JUndefined,
     query |-> JUndefined,
     durations |-> Durations(parsing,
                             IF ctx.proxy # None THEN ctx.proxy.ts - ctx.parsed.ts ELSE 0,
                             IF ctx.proxy # None THEN collect_at - ctx.proxy.ts ELSE 0,
                             total)]

\* collect: the report of a request the parse function rejected
parseErrorReport(ctx, clonedResponse, size, parsing, total, collect_at) ==
    [kind |-> "report",
     ok |-> FALSE,
     response_size |-> size,
     response_map |-> None,
     inputSize |-> 0,
     errors |-> ReportErrors(<<ErrorItem(<<"cannot parse: ">> \o ctx.parsed.parsed.message,
                                         << >>, JUndefined)>>),
     operationName |-> JUndefined,
     originStatus |-> JUndefined,
     query |-> JUndefined,
     durations |-> Durations(parsing, 0, 0, total)]

\* variant: the time since the origin answered is counted from the start
processingDuration_FromStart(ctx, started, collect_at) ==
    IF ctx.proxy # None THEN collect_at - started ELSE 0

\* collect: durations.processing
processingDuration(ctx, started, collect_at) ==
    IF ctx.proxy # None THEN collect_at - ctx.proxy.ts ELSE 0

\* collect: if (!parsedRequest) return null
collectReturnsNull(ctx) == ctx.parsed = None

\* collect(clonedResponse) of a collector started at started, called at collect_at
collect(options, started, ctx, clonedResponse, collect_at) ==
    LET total == collect_at - started
        parsedRequest == ctx.parsed
        proxied == ctx.proxy
        gqlResponse == ctx.response
        size == responseSize(clonedResponse)
        parsingDuration == parsedRequest.ts - started
    IN  IF collectReturnsNull(ctx) THEN [kind |-> "null"]
        ELSE IF isParsedError(parsedRequest.parsed)
        THEN parseErrorReport(ctx, clonedResponse, size, parsingDuration, total, collect_at)
        ELSE [kind |-> "report",
              ok |-> reportOk(gqlResponse, clonedResponse),
              response_size |-> size,
              response_map |-> IF options.calculateResponse /\ gqlResponse # None
                               THEN [kind |-> "map",
                                     map |-> calculateResponseMap(gqlResponse.resp.data)]
                               ELSE None,
              inputSize |-> calculateSize(parsedRequest.parsed.variables),
              errors |-> reportErrors(gqlResponse, clonedResponse),
              operationName |-> parsedRequest.parsed.operationName,
              originStatus |-> IF proxied # None
                               THEN JNumber(proxied.response.status)
                               ELSE JUndefined,
              query |-> parsedRequest.parsed.query,
              durations |-> Durations(parsingDuration,
                                      IF proxied # None
                                      THEN proxied.ts - parsedRequest.ts
                                      ELSE 0,
                                      processingDuration(ctx, started, collect_at),
                                      total)]

-----------------------------------------------------------------------------
(* Inputs: configurations, requests and origin behaviour *)

QueryMeTight == <<"query", " ", "me", " ", "{", "me", "}">>
\* the same document laid out with more whitespace and with comments
QueryMeSpaced ==
    <<"#comment\n", "query", " ", "me", " ", "{", "#comment\n", " ", "me", " ", "}">>
QueryMany == <<"query", " ", "me", " ", "{", "me", " ", "b", " ", "a", " ", "c", " ", "d", "}">>
QueryInvalid == <<"invaliddoc">>
QueryTexts == {QueryMeTight, QueryMeSpaced, QueryMany, QueryInvalid}

Canonical(text) == printExecutableGraphQLDocument(GraphqlParse(JString(text)))

PassSecret == <<"pass">>
SignSecret == <<"signature">>

NoSignSecret == [t |-> "null", secret |-> << >>, algorithm |-> ""]
StringSignSecret == [t |-> "string", secret |-> SignSecret, algorithm |-> ""]
ObjectSignSecret == [t |-> "object", secret |-> SignSecret, algorithm |-> "SHA-512"]

MaxTokensChoices == {5, 1000}

SignatureConfigs ==
    [mode : {"signature"},
     passThroughHash : {Sha256Hex(PassSecret), Sha256Hex(<< >>)},
     signSecret : {NoSignSecret, StringSignSecret, ObjectSignSecret},
     maxTokens : MaxTokensChoices,
     operations : {<< >>}]

OperationMe ==
    [operationName |-> <<"me">>, operationType |-> "query", query |-> QueryMeSpaced,
     behaviour |-> <<"ttl", "3">>]
OperationOther ==
    [operationName |-> <<"other">>, operationType |-> "mutation", query |-> QueryMany,
     behaviour |-> << >>]

OperationMeAgain ==
    [operationName |-> <<"me">>, operationType |-> "query", query |-> QueryMeTight,
     behaviour |-> << >>]

StoreConfigs ==
    [mode : {"store"},
     passThroughHash : {<< >>},
     signSecret : {NoSignSecret},
     maxTokens : {1000},
     operations : {<< >>, <<OperationMe>>, <<OperationMe, OperationOther>>,
                   <<OperationMe, OperationMeAgain>>}]

\* names an application passes to the store; "123" is never registered
OperationNames == {<<"me">>, <<"other">>, <<"123">>}

PassHeaders == {Null, << >>, PassSecret, <<"KABOOM">>}

HashHeaders ==
    {Null, << >>, <<"hash123">>,
     HmacHex(SignSecret, "SHA-256", Canonical(QueryMeTight)),
     HmacHex(SignSecret, "SHA-512", Canonical(QueryMeTight)),
     HmacHex(<<"kaboom">>, "SHA-256", Canonical(QueryMeTight)),
     HmacHex(SignSecret, "SHA-256", Canonical(QueryMany)),
     HmacHex(SignSecret, "SHA-256", QueryMeTight)}

NoBodyFields ==
    [query |-> JUndefined, operationName |-> JUndefined, variables |-> JUndefined,
     op |-> JUndefined, operation |-> JUndefined, v |-> JUndefined]

Body(json, fields) ==
    [json |-> json, query |-> fields.query, operationName |-> fields.operationName,
     variables |-> fields.variables, op |-> fields.op, operation |-> fields.operation,
     v |-> fields.v]

NoParams ==
    [op |-> JUndefined, operation |-> JUndefined, query |-> JUndefined,
     v |-> JUndefined, variables |-> JUndefined]

VarsAbc == JObject(<<"v1", "abc">>)
VarsAbcc == JObject(<<"v1", "abcc">>)

\* bodies sent to a signature handler
SignatureBodies ==
    {Body("invalid", NoBodyFields), Body("null", NoBodyFields), Body("number", NoBodyFields)}
    \cup {Body("object", [NoBodyFields EXCEPT !.query = q]) :
            q \in {JUndefined, JString(<< >>), JNumber("123")} \cup {JString(t) : t \in QueryTexts}}
    \cup {Body("object", [NoBodyFields EXCEPT !.query = JString(QueryMeTight),
                                               !.operationName = JString(<<"me">>),
                                               !.variables = VarsAbc])}

SignatureRequests ==
    {[method |-> "POST", headers |-> [pass |-> p, ophash |-> h], body |-> b, params |-> NoParams] :
        p \in PassHeaders, h \in HashHeaders, b \in SignatureBodies}

\* bodies sent to a store handler
StoreBodies ==
    {Body("invalid", NoBodyFields), Body("null", NoBodyFields), Body("number", NoBodyFields)}
    \cup {Body("object", [NoBodyFields EXCEPT !.op = o, !.operationName = n, !.query = q, !.v = v]) :
            o \in {JUndefined, JNull, JString(<< >>), JString(<<"me">>), JString(<<"123">>), JNumber("123")},
            n \in {JUndefined, JString(<<"other">>)},
            q \in {JUndefined, JString(QueryMany), JString(<<"me">>)},
            v \in {JUndefined, VarsAbc, VarsAbcc}}

StoreParams ==
    {[NoParams EXCEPT !.op = o, !.operation = n, !.query = q, !.v = v] :
        o \in {JUndefined, JString(<< >>), JString(<<"me">>), JString(<<"123">>)},
        n \in {JUndefined, JString(<<"other">>)},
        q \in {JUndefined, JString(<<"me">>)},
        v \in {JUndefined, JString(JSONStringify(VarsAbc)), JString(JSONStringify(VarsAbcc)),
               JString(<<"notjson">>)}}

NoHeaders == [pass |-> Null, ophash |-> Null]

StoreRequests ==
    {[method |-> "POST", headers |-> NoHeaders, body |-> b, params |-> NoParams] : b \in StoreBodies}
    \cup {[method |-> "GET", headers |-> NoHeaders, body |-> Body("invalid", NoBodyFields), params |-> p] :
            p \in StoreParams}
    \cup {[method |-> "PUT", headers |-> NoHeaders, body |-> Body("invalid", NoBodyFields),
           params |-> [NoParams EXCEPT !.op = JString(<<"me">>)]]}

PayloadData ==
    [EmptyObject EXCEPT !.data = JObject(<<"me", "me">>),
                        !.errors = [t |-> "array", items |-> << >>]]
\* error messages an origin sends
MessageSuggestion == <<"Cannot query field. ", SuggestionOpen, "Type ABC", Quote>>
MessageTwoOnLine == <<SuggestionOpen, "me", Quote, " or ", SuggestionOpen, "you", Quote, "?">>
MessageTwoLines == <<SuggestionOpen, "a", Quote, LineBreak, SuggestionOpen, "b", Quote>>
MessageNoSuggestion == <<SuggestionOpen, Quote, LineBreak, Quote, " failed">>

PayloadSuggestion ==
    [EmptyObject EXCEPT !.data = JNull,
                        !.errors = [t |-> "array", items |-> <<MessageSuggestion>>],
                        !.extensions = JObject(<<"tracing", "1">>)]
PayloadSuggestions ==
    [EmptyObject EXCEPT !.errors = [t |-> "array",
                                    items |-> <<MessageTwoOnLine, << >>, MessageTwoLines,
                                                MessageNoSuggestion>>],
                        !.extensions = JNull]
PayloadFalseExtensions ==
    [EmptyObject EXCEPT !.data = JObject(<<"me", "me">>), !.extensions = JBoolean("false")]
PayloadEmptyExtensions ==
    [EmptyObject EXCEPT !.data = JObject(<<"me", "me">>), !.extensions = JArray(<< >>)]

OriginResponses ==
    {[kind |-> "response", status |-> 200, contentType |-> <<"application/json">>,
      body |-> JsonBody(PayloadData)],
     [kind |-> "response", status |-> 200, contentType |-> <<"application/json">>,
      body |-> JsonBody(PayloadSuggestion)],
     [kind |-> "response", status |-> 200,
      contentType |-> <<"application/graphql-response+json">>,
      body |-> JsonBody(PayloadSuggestions)],
     [kind |-> "response", status |-> 200, contentType |-> <<"application/json">>,
      body |-> JsonBody(PayloadFalseExtensions)],
     [kind |-> "response", status |-> 200, contentType |-> <<"application/json">>,
      body |-> JsonBody(PayloadEmptyExtensions)],
     [kind |-> "response", status |-> 400, contentType |-> <<"application/json">>,
      body |-> JsonBody(PayloadSuggestion)],
     [kind |-> "response", status |-> 200, contentType |-> <<"application/json">>,
      body |-> TextBody(<<"not json">>)],
     [kind |-> "response", status |-> 200, contentType |-> <<"application/text">>,
      body |-> TextBody(<<"works">>)],
     [kind |-> "response", status |-> 500, contentType |-> <<"application/text">>,
      body |-> TextBody(<<"oops">>)]}

\* what originFetch does: resolve with a response, or throw an error whose
\* message may be undefined
OriginOutcomes ==
    OriginResponses
    \cup {[kind |-> "throw", message |-> JString(<<"fetch failed">>)],
          [kind |-> "throw", message |-> JUndefined]}

-----------------------------------------------------------------------------
(* The process: one handler, requests handled one after the other *)

Entries == {"handle", "proxy"}

\* the invocations of handle that may be in flight together
Runs == {1, 2}

\* an invocation that has not started: no locals, a collector that was told
\* nothing
IdleRun ==
    [pc |-> "idle", req |-> None, randomKey |-> None, parsed |-> None, outcome |-> None,
     proxyResponse |-> None, response |-> None, hooks |-> << >>, overlapped |-> FALSE]

Init ==
    /\ cfg \in SignatureConfigs \cup StoreConfigs
    /\ validateMap = << >>
    /\ setValidateFnCall = None
    /\ documentMap = << >>
    /\ normalizedMap = << >>
    /\ pc = "idle"
    /\ entry = "handle"
    /\ req = None
    /\ parsed = None
    /\ validatorCalls = << >>
    /\ originCalls = << >>
    /\ originOutcome = None
    /\ formatOptions = None
    /\ proxyResponse = None
    /\ hookLog = << >>
    /\ response = None
    /\ now = 0
    /\ started_at = 0
    /\ reportOptions = None
    /\ context = None
    /\ shaping = None
    /\ collectCall = None
    /\ report = None
    /\ originURL = None
    /\ clientHeaders = None
    /\ requestHeaders = None
    /\ parseCall = None
    /\ admissionSteps = << >>
    /\ runs = [i \in Runs |-> IdleRun]

\* variant: the collector hears of a rejected request twice
HooksAfterParse_Repeated(e, p) ==
    IF e = "handle" /\ p.kind = "error" THEN <<"onRequestParsed", "onRequestParsed">>
    ELSE IF e = "handle" /\ p.kind = "request" THEN <<"onRequestParsed">>
    ELSE << >>

\* variant: the collector only hears of admitted requests
HooksAfterParse_OnlyAdmitted(e, p) ==
    IF e = "handle" /\ p.kind = "request" THEN <<"onRequestParsed">> ELSE << >>

\* collector?.onRequestParsed(parsed) of handle, reached only when the parse
\* function returned
HooksAfterParse(e, p) ==
    IF e = "handle" /\ p.kind # "throw" THEN <<"onRequestParsed">> ELSE << >>

\* variant: removing a validator also forgets the operation
SetValidateFn_DropsOperation(operationName, handler) ==
    /\ pc = "idle"
    /\ cfg.mode = "store"
    /\ LET out == setValidateFn(cfg.operations, validateMap, operationName, handler)
       IN  /\ validateMap' = out.validateMap
           /\ setValidateFnCall' = [kind |-> "call", operationName |-> operationName,
                                    handler |-> handler, before |-> validateMap,
                                    thrown |-> out.thrown]
    /\ cfg' = IF handler = "none"
              THEN [cfg EXCEPT !.operations =
                        SelectSeq(cfg.operations, LAMBDA o : o.operationName # operationName)]
              ELSE cfg
    /\ UNCHANGED <<documentMap, normalizedMap, pc, entry, req, parsed, validatorCalls,
                   originCalls, originOutcome, formatOptions, proxyResponse, hookLog, response>>
    /\ UNCHANGED <<reportVars, headerVars, memoVars, stepVars, runVars>>

\* the application calls store.setValidateFn(operationName, handler)
SetValidateFn(operationName, handler) ==
    /\ pc = "idle"
    /\ cfg.mode = "store"
    /\ LET out == setValidateFn(cfg.operations, validateMap, operationName, handler)
       IN  /\ validateMap' = out.validateMap
           /\ setValidateFnCall' = [kind |-> "call", operationName |-> operationName,
                                    handler |-> handler, before |-> validateMap,
                                    thrown |-> out.thrown]
    /\ UNCHANGED <<cfg, documentMap, normalizedMap, pc, entry, req, parsed, validatorCalls,
                   originCalls, originOutcome, formatOptions, proxyResponse, hookLog, response>>
    /\ UNCHANGED <<reportVars, headerVars, memoVars, stepVars, runVars>>

\* a request arrives at a handler built on createSignatureParseFn(config)
ParseSignature(request, e, randomKey) ==
    /\ pc = "idle"
    /\ cfg.mode = "signature"
    /\ LET out == parseRequest(cfg, request, randomKey, documentMap, normalizedMap)
       IN  /\ parsed' = out.parsed
           /\ documentMap' = out.documentMap
           /\ normalizedMap' = out.normalizedMap
           /\ hookLog' = HooksAfterParse(e, out.parsed)
           /\ admissionSteps' = out.steps
    /\ req' = request
    /\ entry' = e
    /\ pc' = "parsed"
    /\ UNCHANGED <<cfg, validateMap, setValidateFnCall, validatorCalls, originCalls,
                   originOutcome, formatOptions, proxyResponse, response>>
    /\ UNCHANGED <<reportVars, headerVars, memoVars, runVars>>

\* a request arrives at a handler built on createOperationParseFn(store)
ParseStore(request, e) ==
    /\ pc = "idle"
    /\ cfg.mode = "store"
    /\ LET out == parseOperation(cfg.operations, validateMap, request)
       IN  /\ parsed' = out.parsed
           /\ validatorCalls' = out.calls
           /\ hookLog' = HooksAfterParse(e, out.parsed)
    /\ req' = request
    /\ entry' = e
    /\ pc' = "parsed"
    /\ setValidateFnCall' = None
    /\ UNCHANGED <<cfg, validateMap, documentMap, normalizedMap, originCalls, originOutcome,
                   formatOptions, proxyResponse, response>>
    /\ UNCHANGED <<reportVars, headerVars, memoVars, stepVars, runVars>>

\* the parse function threw: the exception leaves handle / the caller
Reject ==
    /\ pc = "parsed"
    /\ parsed.kind = "throw"
    /\ response' = parsed
    /\ pc' = "done"
    /\ UNCHANGED <<cfg, validateMap, setValidateFnCall, documentMap, normalizedMap, entry, req,
                   parsed, validatorCalls, originCalls, originOutcome, formatOptions,
                   proxyResponse, hookLog>>
    /\ UNCHANGED <<reportVars, headerVars, memoVars, stepVars, runVars>>

\* variant: the error is answered only after the origin was asked
ReturnParseError_AfterFetch ==
    /\ pc = "parsed"
    /\ isParsedError(parsed)
    /\ originCalls' = Append(originCalls, [query |-> JUndefined, operationName |-> JUndefined,
                                            variables |-> JUndefined])
    /\ response' = createErrorResponse(parsed.message, parsed.code)
    /\ pc' = "done"
    /\ UNCHANGED <<cfg, validateMap, setValidateFnCall, documentMap, normalizedMap, entry, req,
                   parsed, validatorCalls, originOutcome, formatOptions, proxyResponse, hookLog>>
    /\ UNCHANGED <<reportVars, headerVars, memoVars, stepVars, runVars>>

\* handle: createParseErrorResponse(parsed); proxy(): createErrorResponse(...)
ReturnParseError ==
    /\ pc = "parsed"
    /\ isParsedError(parsed)
    /\ response' = IF entry = "handle"
                   THEN createParseErrorResponse(parsed)
                   ELSE createErrorResponse(parsed.message, parsed.code)
    /\ pc' = "done"
    /\ UNCHANGED <<cfg, validateMap, setValidateFnCall, documentMap, normalizedMap, entry, req,
                   parsed, validatorCalls, originCalls, originOutcome, formatOptions,
                   proxyResponse, hookLog>>
    /\ UNCHANGED <<reportVars, headerVars, memoVars, stepVars, runVars>>

\* variant: the catch answers with a fixed message
ProxyStage_FixedMessage(outcome) ==
    IF outcome.kind = "throw"
    THEN createErrorResponse(<<"internal error">>, 500)
    ELSE outcome

\* _proxy of createGraphQLProxy: try { await finalOpts.proxy(parsed) }
\* catch (e) { createErrorResponse(e.message ?? 'internal error', 500) }
ProxyStage(outcome) ==
    IF outcome.kind = "throw"
    THEN createErrorResponse(Coalesce(outcome.message, JString(<<"internal error">>)).v, 500)
    ELSE outcome

\* proxy(parsed, config) issues the origin request; in handle it runs inside
\* _proxy, whose catch turns an exception into a 500 response
Proxy(outcome) ==
    /\ pc = "parsed"
    /\ parsed.kind = "request"
    /\ originCalls' = Append(originCalls, OriginRequest(parsed))
    /\ originOutcome' = outcome
    /\ IF entry = "proxy"
       THEN /\ response' = outcome
            /\ pc' = "done"
            /\ UNCHANGED <<proxyResponse, hookLog>>
       ELSE /\ proxyResponse' = ProxyStage(outcome)
            /\ hookLog' = Append(hookLog, "onProxied")
            /\ pc' = "proxied"
            /\ UNCHANGED response
    /\ UNCHANGED <<cfg, validateMap, setValidateFnCall, documentMap, normalizedMap, entry, req,
                   parsed, validatorCalls, formatOptions>>
    /\ UNCHANGED <<reportVars, headerVars, memoVars, stepVars, runVars>>

\* the rest of handle: classify the proxy response, decode and shape it
Respond(options) ==
    /\ pc = "proxied"
    /\ IF ~ResponseOk(proxyResponse)
       THEN /\ response' = proxyResponse
            /\ UNCHANGED <<hookLog, formatOptions>>
       ELSE IF parseResponseFails(proxyResponse)
       THEN /\ response' = createErrorResponse(<<"cannot parse response">>, 406)
            /\ UNCHANGED <<hookLog, formatOptions>>
       ELSE /\ response' = parseOriginResponse(proxyResponse.body.value, proxyResponse, options)
            /\ formatOptions' = options
            /\ hookLog' = Append(hookLog, "onResponseParsed")
    /\ pc' = "done"
    /\ UNCHANGED <<cfg, validateMap, setValidateFnCall, documentMap, normalizedMap, entry, req,
                   parsed, validatorCalls, originCalls, originOutcome, proxyResponse>>
    /\ UNCHANGED <<reportVars, headerVars, memoVars, stepVars, runVars>>

\* the request is over; the handler waits for the next one
Finish ==
    /\ pc = "done"
    /\ pc' = "idle"
    /\ entry' = "handle"
    /\ req' = None
    /\ parsed' = None
    /\ validatorCalls' = << >>
    /\ originCalls' = << >>
    /\ originOutcome' = None
    /\ formatOptions' = None
    /\ proxyResponse' = None
    /\ hookLog' = << >>
    /\ response' = None
    /\ admissionSteps' = << >>
    /\ UNCHANGED <<cfg, validateMap, setValidateFnCall, documentMap, normalizedMap>>
    /\ UNCHANGED <<reportVars, headerVars, memoVars, runVars>>

Next ==
    \/ \E n \in OperationNames, h \in Validators \cup {"none"} : SetValidateFn(n, h)
    \/ \E r \in SignatureRequests, e \in Entries, k \in RandomKeys : ParseSignature(r, e, k)
    \/ \E r \in StoreRequests, e \in Entries : ParseStore(r, e)
    \/ Reject
    \/ ReturnParseError
    \/ \E o \in OriginOutcomes : Proxy(o)
    \/ \E o \in ParseOptionsChoices : Respond(o)
    \/ Finish

Spec == Init /\ [][Next]_vars

-----------------------------------------------------------------------------
(* A collector whose callbacks may throw *)

\* the exception a collector callback throws
HookError(hook) == [kind |-> "throw", message |-> <<"collector failed">>, hook |-> hook]

\* collector.onRequestParsed(parsed) throws: handle has no try around it
OnRequestParsedThrows ==
    /\ pc = "parsed"
    /\ entry = "handle"
    /\ parsed.kind # "throw"
    /\ response' = HookError("onRequestParsed")
    /\ pc' = "done"
    /\ UNCHANGED <<cfg, validateMap, setValidateFnCall, documentMap, normalizedMap, entry, req,
                   parsed, validatorCalls, originCalls, originOutcome, formatOptions,
                   proxyResponse, hookLog>>
    /\ UNCHANGED <<reportVars, headerVars, memoVars, stepVars, runVars>>

\* collector.onProxied(proxyResponse) throws
OnProxiedThrows ==
    /\ pc = "proxied"
    /\ response' = HookError("onProxied")
    /\ pc' = "done"
    /\ UNCHANGED <<cfg, validateMap, setValidateFnCall, documentMap, normalizedMap, entry, req,
                   parsed, validatorCalls, originCalls, originOutcome, formatOptions,
                   proxyResponse, hookLog>>
    /\ UNCHANGED <<reportVars, headerVars, memoVars, stepVars, runVars>>

\* collector.onResponseParsed(parsedResult) is called and throws
OnResponseParsedThrows ==
    /\ pc = "proxied"
    /\ ResponseOk(proxyResponse)
    /\ ~parseResponseFails(proxyResponse)
    /\ hookLog' = Append(hookLog, "onResponseParsed")
    /\ response' = HookError("onResponseParsed")
    /\ pc' = "done"
    /\ UNCHANGED <<cfg, validateMap, setValidateFnCall, documentMap, normalizedMap, entry, req,
                   parsed, validatorCalls, originCalls, originOutcome, formatOptions,
                   proxyResponse>>
    /\ UNCHANGED <<reportVars, headerVars, memoVars, stepVars, runVars>>

NextFaultyCollector ==
    \/ Next
    \/ OnRequestParsedThrows
    \/ OnProxiedThrows
    \/ OnResponseParsedThrows

SpecFaultyCollector == Init /\ [][NextFaultyCollector]_vars

-----------------------------------------------------------------------------
(* The report collector: one collector, its callbacks and collect *)

\* the clock stops here
MaxClock == 2

\* what onRequestParsed is called with
ReportParsedResults ==
    {[kind |-> "request", query |-> JString(QueryMeTight), operationName |-> JString(<<"me">>),
      variables |-> JUndefined],
     [kind |-> "request", query |-> JString(QueryMeTight), operationName |-> JUndefined,
      variables |-> VarsAbc],
     createError(403, <<"test">>)}

\* what onProxied is called with
ReportProxyResponses == {[kind |-> "response", status |-> s] : s \in {200, 500}}

\* the data of the payloads onResponseParsed is called with
DataMe == TObject(<<"me">>, <<Leaf("string")>>)
DataNested ==
    TObject(<<"itemA", "emptyArr", "arr">>,
            <<TObject(<<"test", "testb", "test3">>,
                      <<Leaf("null"), Leaf("undefined"), Leaf("zero")>>),
              TArray(<< >>),
              TArray(<<TObject(<<"w", "test">>, <<Leaf("null"), Leaf("string")>>),
                       TObject(<<"d", "test">>, <<Leaf("string"), Leaf("string")>>)>>)>>)
DataList ==
    TArray(<<Leaf("number"), TArray(<<Leaf("false"), Leaf("undefined")>>), DataMe,
             TObject(<< >>, << >>)>>)

DataTrees ==
    {Leaf("undefined"), Leaf("null"), Leaf("number"), Leaf("zero"), DataMe, DataNested, DataList}

NullErrors == [t |-> "null", items |-> << >>]
EmptyErrors == [t |-> "array", items |-> << >>]

\* what onResponseParsed is called with
ReportPayloads ==
    {[EmptyObject EXCEPT !.data = d] : d \in DataTrees}
    \cup {[EmptyObject EXCEPT !.data = DataMe, !.errors = e] : e \in {EmptyErrors, NullErrors}}
    \cup {[EmptyObject EXCEPT !.data = d,
                              !.errors = [t |-> "array", items |-> <<MessageSuggestion, << >>>>],
                              !.extensions = JObject(<<"tracing", "1">>)] :
            d \in {Leaf("null"), DataMe}}

\* the bodies of the responses collect is called with
TextOk == <<"ok">>
TextNotFound == <<"{", "\"message\"", ":", "\"not-found\"", "}">>

CollectResponse(status, contentSize, text) ==
    [status |-> status, contentSize |-> contentSize, text |-> text]

\* what collect is called with
CollectResponses ==
    {CollectResponse(200, s, TextOk) :
        s \in {Null, << >>, <<"4", "2">>, <<"a", "b", "c">>, <<"1", "2", ".", "5", "0">>}}
    \cup {CollectResponse(199, Null, TextOk), CollectResponse(399, Null, TextOk),
          CollectResponse(400, Null, TextOk), CollectResponse(400, Null, TextNotFound),
          CollectResponse(401, Null, TextOk), CollectResponse(500, Null, TextNotFound)}

\* createReportCollector(opts)
CreateReportCollector(opts) ==
    /\ context = None
    /\ started_at' = now
    /\ context' = createEmptyReportContext
    /\ reportOptions' = opts
    /\ UNCHANGED <<now, shaping, collectCall, report>>
    /\ UNCHANGED <<pipelineVars, headerVars, memoVars, stepVars, runVars>>

\* time passes: Date.now() does not decrease while a request is handled
Tick ==
    /\ now < MaxClock
    /\ report = None
    /\ now' = now + 1
    /\ UNCHANGED <<started_at, reportOptions, context, shaping, collectCall, report>>
    /\ UNCHANGED <<pipelineVars, headerVars, memoVars, stepVars, runVars>>

\* onRequestParsed(parsed)
OnRequestParsed(p) ==
    /\ context # None
    /\ report = None
    /\ context.parsed = None
    /\ context' = [context EXCEPT !.parsed = [kind |-> "slot", parsed |-> p, ts |-> now]]
    /\ UNCHANGED <<now, started_at, reportOptions, shaping, collectCall, report>>
    /\ UNCHANGED <<pipelineVars, headerVars, memoVars, stepVars, runVars>>

\* onProxied(resp)
OnProxied(resp) ==
    /\ context # None
    /\ report = None
    /\ context.proxy = None
    /\ context' = [context EXCEPT !.proxy = [kind |-> "slot", response |-> resp, ts |-> now]]
    /\ UNCHANGED <<now, started_at, reportOptions, shaping, collectCall, report>>
    /\ UNCHANGED <<pipelineVars, headerVars, memoVars, stepVars, runVars>>

\* onResponseParsed(gqlResponse): the slot holds the object it was given
OnResponseParsed(gqlResponse) ==
    /\ context # None
    /\ report = None
    /\ context.response = None
    /\ context' = [context EXCEPT !.response = [kind |-> "slot", resp |-> gqlResponse,
                                                ts |-> now]]
    /\ shaping' = [kind |-> "observed", resp |-> gqlResponse, options |-> None]
    /\ UNCHANGED <<now, started_at, reportOptions, collectCall, report>>
    /\ UNCHANGED <<pipelineVars, headerVars, memoVars, stepVars, runVars>>

\* handle: _proxy.formatResponse(parsedResult, proxyResponse) after
\* collector?.onResponseParsed(parsedResult); parseOriginResponse assigns to
\* the errors and extensions of the object the slot holds
FormatResponse(options) ==
    /\ context # None
    /\ report = None
    /\ context.response # None
    /\ shaping.options = None
    /\ context' = [context EXCEPT !.response.resp =
                       parseOriginResponse(@, context.proxy, options).body.value]
    /\ shaping' = [shaping EXCEPT !.options = options]
    /\ UNCHANGED <<now, started_at, reportOptions, collectCall, report>>
    /\ UNCHANGED <<pipelineVars, headerVars, memoVars, stepVars, runVars>>

\* variant: a collector that heard nothing still reports
Collect_AlwaysReports(clonedResponse) ==
    /\ context # None
    /\ report = None
    /\ report' = IF collectReturnsNull(context)
                 THEN [kind |-> "report", ok |-> FALSE,
                       response_size |-> responseSize(clonedResponse),
                       response_map |-> None, inputSize |-> 0, errors |-> NoReportErrors,
                       operationName |-> JUndefined, originStatus |-> JUndefined,
                       query |-> JUndefined, durations |-> Durations(0, 0, 0, now - started_at)]
                 ELSE collect(reportOptions, started_at, context, clonedResponse, now)
    /\ collectCall' = [kind |-> "call", response |-> clonedResponse, collect_at |-> now]
    /\ UNCHANGED <<now, started_at, reportOptions, context, shaping>>
    /\ UNCHANGED <<pipelineVars, headerVars, memoVars, stepVars, runVars>>

\* collect(response)
Collect(clonedResponse) ==
    /\ context # None
    /\ report = None
    /\ report' = collect(reportOptions, started_at, context, clonedResponse, now)
    /\ collectCall' = [kind |-> "call", response |-> clonedResponse, collect_at |-> now]
    /\ UNCHANGED <<now, started_at, reportOptions, context, shaping>>
    /\ UNCHANGED <<pipelineVars, headerVars, memoVars, stepVars, runVars>>

ReportOptionsChoices == {[calculateResponse |-> TRUE], [calculateResponse |-> FALSE]}

\* a handler that serves no request: what is looked at does not depend on
\* its configuration
InitIdle == Init /\ cfg = CHOOSE c \in StoreConfigs : TRUE

NextReport ==
    \/ \E o \in ReportOptionsChoices : CreateReportCollector(o)
    \/ Tick
    \/ \E p \in ReportParsedResults : OnRequestParsed(p)
    \/ \E r \in ReportProxyResponses : OnProxied(r)
    \/ \E g \in ReportPayloads : OnResponseParsed(g)
    \/ \E o \in ParseOptionsChoices : FormatResponse(o)
    \/ \E r \in CollectResponses : Collect(r)

SpecReport == InitIdle /\ [][NextReport]_vars

-----------------------------------------------------------------------------
(* The headers of the request sent to the origin *)

\* config.originURL
OriginURLs ==
    {[scheme |-> "https", host |-> "origin.example", port |-> "", path |-> "/graphql"],
     [scheme |-> "https", host |-> "origin.example", port |-> "443", path |-> "/graphql"],
     [scheme |-> "http", host |-> "localhost", port |-> "3000", path |-> "/"]}

\* the headers a client may send, each with a value
ClientHeaderValues ==
    [n \in {"host", "origin", "content-type", "content-length", "content-encoding",
            "transfer-encoding", "x-forwarded-proto", "x-forwarded-host", "x-forwarded-for",
            "cf-connecting-ip", "x-real-ip", "authorization"} |->
        CASE n = "host" -> <<"test.localhost">>
          [] n = "origin" -> <<"https://client.example">>
          [] n = "content-type" -> <<"text/plain">>
          [] n = "content-length" -> <<"27">>
          [] n = "content-encoding" -> <<"gzip">>
          [] n = "transfer-encoding" -> <<"chunked">>
          [] n = "x-forwarded-proto" -> <<"http">>
          [] n = "x-forwarded-host" -> <<"edge.example">>
          [] n = "x-forwarded-for" -> <<"10.0.0.1">>
          [] n = "cf-connecting-ip" -> <<"203.0.113.7">>
          [] n = "x-real-ip" -> <<"198.51.100.9">>
          [] n = "authorization" -> <<"Bearer token">>]

\* parsedRequest.headers: any of those headers; a forwarding header or host
\* may come with an empty value
ClientHeaders ==
    UNION {{[n \in names |-> IF n \in empty THEN << >> ELSE ClientHeaderValues[n]] :
               empty \in SUBSET (names \cap {"host", "x-forwarded-proto", "x-forwarded-for"})} :
           names \in SUBSET DOMAIN ClientHeaderValues}

\* proxy(parsedRequest, config) of an admitted request builds the request for
\* the origin
ProxyRequest(headers, url) ==
    /\ originURL = None
    /\ originURL' = url
    /\ clientHeaders' = headers
    /\ requestHeaders' = proxyRequestHeaders(headers, url)
    /\ UNCHANGED <<pipelineVars, reportVars, memoVars, stepVars, runVars>>

\* one request is built, from any headers and for any origin
NextProxyHeaders ==
    /\ originURL = None
    /\ \E h \in ClientHeaders, u \in OriginURLs : ProxyRequest(h, u)

SpecProxyHeaders == InitIdle /\ [][NextProxyHeaders]_vars

-----------------------------------------------------------------------------
(* Callers of utils.parse: one process, one memo *)

QueryAnonymous == <<"{", " ", "me", " ", "}">>

\* texts handed to parse
ParseTexts == QueryTexts \cup {QueryAnonymous}

\* token limits of the callers; 5000 is the default of parse
ParseMaxTokens == {3, 5, 9, 5000}

\* parse(input, maxTokens) called by any handler of the process
ParseCall(input, maxTokens) ==
    LET r == parse(JString(input), maxTokens, documentMap)
    IN  /\ documentMap' = r.documentMap
        /\ parseCall' = [input |-> input, maxTokens |-> maxTokens,
                         throws |-> r.throws, document |-> r.document]
        /\ UNCHANGED <<cfg, validateMap, setValidateFnCall, normalizedMap, pc, entry, req,
                       parsed, validatorCalls, originCalls, originOutcome, formatOptions,
                       proxyResponse, hookLog, response>>
        /\ UNCHANGED <<reportVars, headerVars, stepVars, runVars>>

\* any sequence of calls, with any text and any limit
NextParseMemo == \E t \in ParseTexts, m \in ParseMaxTokens : ParseCall(t, m)

SpecParseMemo == InitIdle /\ [][NextParseMemo]_vars

\* a handler in a process where another caller, created with the default
\* limit, has parsed a text before the handler's request arrives
NextSharedMemo ==
    \/ Next
    \/ /\ pc = "idle"
       /\ parseCall = None
       /\ ParseCall(QueryMany, 5000)

SpecSharedMemo == Init /\ [][NextSharedMemo]_vars

-----------------------------------------------------------------------------
(* Two requests in flight in one handler *)

\* the parse function of the handler, with the memos it reads and writes
Admission(config, vmap, request, randomKey, dmap, nmap) ==
    IF config.mode = "signature"
    THEN LET out == parseRequest(config, request, randomKey, dmap, nmap)
         IN  [parsed |-> out.parsed, documentMap |-> out.documentMap,
              normalizedMap |-> out.normalizedMap]
    ELSE [parsed |-> parseOperation(config.operations, vmap, request).parsed,
          documentMap |-> dmap, normalizedMap |-> nmap]

\* a callback of the collector and what it was called with
Hook(name, value) == [hook |-> name, value |-> value]

\* handle after the parse function returned p: the collector hears of it, and
\* a ParseError is answered at once; an exception leaves handle
AfterAdmission(run, request, randomKey, p) ==
    LET base == [run EXCEPT !.req = request, !.randomKey = randomKey, !.parsed = p]
    IN  IF p.kind = "throw"
        THEN [base EXCEPT !.pc = "done", !.response = p]
        ELSE IF isParsedError(p)
        THEN [base EXCEPT !.pc = "done", !.response = createParseErrorResponse(p),
                          !.hooks = <<Hook("onRequestParsed", p)>>]
        ELSE [base EXCEPT !.pc = "parsed", !.hooks = <<Hook("onRequestParsed", p)>>]

\* handle after the origin was asked: onProxied, and a response that is not
\* ok is returned as it is
AfterProxy(run, outcome) ==
    LET proxied == ProxyStage(outcome)
        base == [run EXCEPT !.outcome = outcome, !.proxyResponse = proxied,
                            !.hooks = Append(run.hooks, Hook("onProxied", proxied))]
    IN  IF ~ResponseOk(proxied)
        THEN [base EXCEPT !.pc = "done", !.response = proxied]
        ELSE [base EXCEPT !.pc = "proxied"]

\* handle after the response was read: 406 when it does not decode, else
\* onResponseParsed and the default formatOriginResp
AfterParseResponse(run) ==
    IF parseResponseFails(run.proxyResponse)
    THEN [run EXCEPT !.pc = "done",
                     !.response = createErrorResponse(<<"cannot parse response">>, 406)]
    ELSE [run EXCEPT !.pc = "done",
                     !.response = parseOriginResponse(run.proxyResponse.body.value,
                                                      run.proxyResponse, DefaultParseOptions),
                     !.hooks = Append(run.hooks,
                                      Hook("onResponseParsed", run.proxyResponse.body.value))]

\* requests sent to a signature handler and to a store handler while another
\* request is in flight
ConcurrentRequests(config) ==
    IF config.mode = "signature"
    THEN {r \in SignatureRequests :
            /\ r.headers.pass \in {Null, PassSecret}
            /\ r.headers.ophash \in {<<"hash123">>,
                                     HmacHex(SignSecret, "SHA-256", Canonical(QueryMeTight))}
            /\ r.body.json = "object"
            /\ r.body.query \in {JString(QueryMeTight), JString(QueryMeSpaced), JString(QueryMany)}
            /\ r.body.operationName = JUndefined}
    ELSE {r \in StoreRequests :
            /\ r.method = "POST"
            /\ r.body.json = "object"
            /\ r.body.op \in {JString(<<"me">>), JString(<<"123">>)}
            /\ r.body.operationName = JUndefined
            /\ r.body.query = JUndefined}

\* what the origin does with a request of either invocation
ConcurrentOutcomes ==
    {o \in OriginOutcomes :
        \/ o.kind = "throw" /\ o.message # JUndefined
        \/ o.kind = "response" /\ o.status = 200
           /\ o.body \in {JsonBody(PayloadSuggestion), TextBody(<<"not json">>)}}

\* generateRandomSecretKey() gives each invocation a key of its own
RunKey(i) == CHOOSE k \in RandomKeys : (i = 1) <=> (k.secret = <<"rnd1">>)

\* an invocation has started
Serving == \E i \in Runs : runs[i].pc # "idle"

\* handle(request, collector) runs up to its first await on the origin: the
\* parse function reads and writes the memos in one synchronous stretch
StartRun(i, request, randomKey) ==
    /\ runs[i].pc = "idle"
    /\ LET out == Admission(cfg, validateMap, request, randomKey, documentMap, normalizedMap)
           started == [runs[i] EXCEPT
                          !.overlapped = \E j \in Runs \ {i} : runs[j].pc \in {"parsed", "proxied"}]
       IN  /\ documentMap' = out.documentMap
           /\ normalizedMap' = out.normalizedMap
           /\ runs' = [runs EXCEPT ![i] = AfterAdmission(started, request, randomKey, out.parsed)]
    /\ UNCHANGED <<cfg, validateMap, setValidateFnCall, pc, entry, req, parsed, validatorCalls,
                   originCalls, originOutcome, formatOptions, proxyResponse, hookLog, response>>
    /\ UNCHANGED <<reportVars, headerVars, memoVars, stepVars>>

\* the origin answers the request of invocation i, or the fetch fails
OriginAnswers(i, outcome) ==
    /\ runs[i].pc = "parsed"
    /\ runs' = [runs EXCEPT ![i] = AfterProxy(runs[i], outcome)]
    /\ UNCHANGED <<pipelineVars, reportVars, headerVars, memoVars, stepVars>>

\* the body of the origin's response has been read for invocation i
ResponseRead(i) ==
    /\ runs[i].pc = "proxied"
    /\ runs' = [runs EXCEPT ![i] = AfterParseResponse(runs[i])]
    /\ UNCHANGED <<pipelineVars, reportVars, headerVars, memoVars, stepVars>>

\* the store is configured before the handler serves
Configure(operationName, handler) ==
    /\ ~Serving
    /\ setValidateFnCall = None
    /\ SetValidateFn(operationName, handler)

NextConcurrent ==
    \/ /\ ~Serving
       /\ \E n \in {<<"me">>}, h \in {"requireAbc"} : Configure(n, h)
    \/ \E i \in Runs :
          /\ runs[i].pc = "idle"
          /\ \E r \in ConcurrentRequests(cfg) : StartRun(i, r, RunKey(i))
    \/ \E i \in Runs, o \in ConcurrentOutcomes : OriginAnswers(i, o)
    \/ \E i \in Runs : ResponseRead(i)

SpecConcurrent == Init /\ [][NextConcurrent]_vars

\* handle(request, collector) in a process that handles nothing else: the
\* response and what the collector was told, from empty memos; without an
\* outcome of the origin the run stays where it waits for one
HandleAlone(config, vmap, request, randomKey, outcome) ==
    LET out == Admission(config, vmap, request, randomKey, << >>, << >>)
        admitted == AfterAdmission(IdleRun, request, randomKey, out.parsed)
        proxied == IF admitted.pc = "parsed" /\ outcome # None
                   THEN AfterProxy(admitted, outcome)
                   ELSE admitted
        ended == IF proxied.pc = "proxied" THEN AfterParseResponse(proxied) ELSE proxied
    IN  [response |-> ended.response, hooks |-> ended.hooks]

-----------------------------------------------------------------------------
(* Properties *)

StoreMode == cfg.mode = "store" /\ pc # "idle"
SignatureMode == cfg.mode = "signature" /\ pc # "idle"

\* the definition registered under a name: the last entry of that name in the
\* list the store was built from
Registered(name) ==
    {cfg.operations[i] : i \in {j \in 1..Len(cfg.operations) :
        /\ cfg.operations[j].operationName = name
        /\ \A k \in (j + 1)..Len(cfg.operations) : cfg.operations[k].operationName # name}}

\* the operation a request names: the first of the candidate keys that is
\* neither null nor undefined
FirstDefined(values) ==
    LET defined == {i \in 1..Len(values) : values[i].t \notin {"undefined", "null"}}
    IN  IF defined = {} THEN JUndefined
        ELSE values[CHOOSE i \in defined : \A j \in defined : i <= j]

RequestedOperation ==
    IF req.method = "POST"
    THEN FirstDefined(<<req.body.op, req.body.operationName, req.body.operation, req.body.query>>)
    ELSE FirstDefined(<<req.params.op, req.params.operation, req.params.query>>)

\* C1: every request store admission accepts carries the stored query text and
\* the registered name of the operation the request names, whatever the
\* client sent as query; the origin only ever receives registered queries
C1_StoredQueryForwarded ==
    StoreMode =>
        /\ parsed.kind = "request" =>
              \E o \in Registered(RequestedOperation.v) :
                  /\ parsed.query = JString(o.query)
                  /\ parsed.operationName = JString(o.operationName)
        /\ \A i \in 1..Len(originCalls) :
              \E o \in Registered(RequestedOperation.v) : originCalls[i].query = JString(o.query)

\* a request whose body carries its own query text next to a registered
\* operation name was admitted and forwarded
C1_Witness ==
    /\ StoreMode
    /\ parsed.kind = "request"
    /\ req.method = "POST"
    /\ req.body.query = JString(QueryMany)
    /\ parsed.query # JString(QueryMany)
    /\ originCalls # << >>

\* C2: the origin is asked only for admitted requests; a ParseError is answered
\* with its code as status, the JSON body {"message": <its message>} and
\* content-type application/json, without any origin request
C2_OriginOnlyWhenAdmitted ==
    /\ originCalls # << >> => parsed.kind = "request"
    /\ (pc = "done" /\ parsed.kind = "error") =>
          /\ response.kind = "response"
          /\ response.status = parsed.code
          /\ response.body = JsonBody([EmptyObject EXCEPT !.message = JString(parsed.message)])
          /\ response.contentType = <<"application/json">>
          /\ originCalls = << >>

\* both a handle run and a proxy() run have answered a ParseError
C2_Witness ==
    /\ pc = "done"
    /\ parsed.kind = "error"
    /\ parsed.code = 403
    /\ entry = "proxy"
    /\ response.status = 403

-----------------------------------------------------------------------------
(* Signature admission *)

\* the request carries a passthrough header whose SHA-256 digest is the
\* configured hash
PassTokenMatches ==
    req.headers.pass # Null /\ Sha256Hex(req.headers.pass) = cfg.passThroughHash

\* ... and that header is not empty
PassTokenAccepted == PassTokenMatches /\ req.headers.pass # << >>

SecretConfigured == cfg.signSecret.t # "null"

HashHeaderPresent == req.headers.ophash # Null /\ req.headers.ophash # << >>

\* the body is a JSON object with a query
BodyHasQuery == req.body.json = "object" /\ Truthy(req.body.query)

\* the body's query is a document of at most max_tokens tokens
QueryParses ==
    /\ BodyHasQuery
    /\ req.body.query.t = "string"
    /\ ParseTokens(Lex(req.body.query.v)).ok
    /\ Len(Lex(req.body.query.v)) <= cfg.maxTokens

\* lowercase-hex HMAC of the canonical form of body.query under the
\* configured secret and algorithm
ExpectedSignature ==
    HmacHex(cfg.signSecret.secret,
            IF cfg.signSecret.t = "string" THEN "SHA-256" ELSE cfg.signSecret.algorithm,
            Canonical(req.body.query.v))

InvalidHashError == createError(403, <<"Invalid ", "x-proxy-op-hash", " header">>)

WithoutPassHeader == [req EXCEPT !.headers.pass = Null]

AnswerWithoutPassHeader(k) ==
    parseRequest(cfg, WithoutPassHeader, k, documentMap, normalizedMap).parsed

\* the same answer, but for the headers handed on
SameAnswer(p, q) ==
    IF p.kind = "request" /\ q.kind = "request" THEN [p EXCEPT !.headers = q.headers] = q ELSE p = q

\* C4 (as stated): isPassthrough holds exactly for a request carrying a
\* passthrough header whose SHA-256 digest is the configured hash; such a
\* request is admitted without signature check; any other request is treated
\* like one without the header
C4_PassthroughIffDigestMatches ==
    SignatureMode =>
        /\ parsed.kind = "request" => (parsed.isPassthrough <=> PassTokenMatches)
        /\ (PassTokenMatches /\ QueryParses) => parsed.kind = "request"
        /\ ~PassTokenMatches =>
              \A k \in RandomKeys : SameAnswer(parsed, AnswerWithoutPassHeader(k))

\* C4 (amended): isPassthrough holds exactly for a request carrying a non-empty
\* passthrough header whose SHA-256 digest is the configured hash; such a
\* request is admitted whatever its x-proxy-op-hash header holds; an absent,
\* empty or non-matching header leaves the request under the signature rules
\* of a request without the header
C4_PassthroughIffNonEmptyDigestMatches ==
    SignatureMode =>
        /\ parsed.kind = "request" => (parsed.isPassthrough <=> PassTokenAccepted)
        /\ (PassTokenAccepted /\ QueryParses) => parsed.kind = "request"
        /\ ~PassTokenAccepted =>
              \A k \in RandomKeys : SameAnswer(parsed, AnswerWithoutPassHeader(k))

\* a passthrough request with a worthless signature header was admitted
C4_Witness ==
    /\ SignatureMode /\ SecretConfigured
    /\ PassTokenAccepted
    /\ req.headers.ophash = <<"hash123">>
    /\ parsed.kind = "request"
    /\ parsed.isPassthrough
    /\ originCalls # << >>

\* C5: a parseable query signed with the configured secret and algorithm over
\* its canonical form is admitted as ParsedRequest with the raw body query,
\* the body's operationName and variables, the request headers and
\* isPassthrough = false; with any other signature it is not admitted
C5_SignatureRoundTrip ==
    (SignatureMode /\ SecretConfigured /\ ~PassTokenAccepted /\ QueryParses) =>
        /\ req.headers.ophash = ExpectedSignature =>
              parsed = [kind |-> "request",
                        query |-> req.body.query,
                        operationName |-> req.body.operationName,
                        variables |-> req.body.variables,
                        headers |-> req.headers,
                        isPassthrough |-> FALSE]
        /\ req.headers.ophash # ExpectedSignature => parsed.kind # "request"

\* a query whose text differs from its canonical form made the round trip
\* under a configured SHA-512 secret
C5_Witness ==
    /\ SignatureMode /\ ~PassTokenAccepted /\ QueryParses
    /\ cfg.signSecret.t = "object"
    /\ req.body.query.v # Canonical(req.body.query.v)
    /\ req.body.operationName = JString(<<"me">>)
    /\ req.headers.ophash = ExpectedSignature
    /\ parsed.kind = "request"

CannotParseError == createError(403, <<"cannot parse query">>)

\* C6: a body query that does not parse or has more than max_tokens tokens is
\* never admitted nor forwarded, and is answered 403 'cannot parse query'
\* also when the request is passthrough or carries a signature
C6_TokenCapAlwaysEnforced ==
    (SignatureMode /\ BodyHasQuery /\ ~QueryParses) =>
        /\ parsed.kind # "request"
        /\ originCalls = << >>
        /\ (PassTokenAccepted \/ ~SecretConfigured \/ HashHeaderPresent) => parsed = CannotParseError

-----------------------------------------------------------------------------
(* Store admission *)

\* the OpsDef the store keeps for a registered operation
DefinitionOf(o) ==
    [behaviour |-> o.behaviour, operation |-> o.operationType,
     operationName |-> o.operationName, query |-> o.query]

\* the request could be decoded: a JSON body that is not null for POST, no or
\* well-formed JSON variables in the query string for GET
ExtractionDecodes ==
    \/ req.method = "POST" /\ req.body.json \notin {"invalid", "null"}
    \/ /\ req.method = "GET"
       /\ LET text == FirstDefined(<<req.params.v, req.params.variables>>)
          IN  \/ ~Truthy(text)
              \/ text.v = JSONStringify(VarsAbc)
              \/ text.v = JSONStringify(VarsAbcc)

HasOperationName == RequestedOperation.t = "string" /\ RequestedOperation.v # << >>

\* C7: a validator runs only once the requested name has resolved to a
\* registered definition and before any origin request, on that definition and
\* the stored query; when it returns an error the answer is 400 with its
\* message and the origin is never asked; when it returns nothing the request
\* is admitted
C7_ValidatorAfterResolution ==
    StoreMode =>
        /\ Len(validatorCalls) <= 1
        /\ (validatorCalls # << >> /\ pc = "parsed") => originCalls = << >>
        /\ \A i \in 1..Len(validatorCalls) :
              LET call == validatorCalls[i]
              IN  /\ ExtractionDecodes /\ HasOperationName
                  /\ \E o \in Registered(RequestedOperation.v) :
                        /\ o.operationName \in DOMAIN validateMap
                        /\ call.def = DefinitionOf(o)
                        /\ call.query = JString(o.query)
                        /\ call.operationName = JString(o.operationName)
                  /\ call.returned.t = "error" =>
                        /\ parsed = createError(400, call.returned.message.v)
                        /\ originCalls = << >>
                  /\ call.returned.t = "undefined" =>
                        /\ parsed.kind = "request"
                        /\ parsed.query = call.query

\* a validator refused a request for a registered operation
C7_Witness ==
    /\ StoreMode
    /\ pc = "done"
    /\ validatorCalls # << >>
    /\ validatorCalls[1].returned.t = "error"
    /\ parsed = createError(400, <<"not valid input">>)
    /\ response.status = 400

\* C8: a validator that throws makes admission return ParseError 400
\* 'input validation'
C8_ValidatorExceptionBecomes400 ==
    StoreMode =>
        \A i \in 1..Len(validatorCalls) :
            validatorCalls[i].returned.t = "throw" =>
                parsed = createError(400, <<"input validation">>)

\* C9: store admission answers 404 'method not supported' to a method other
\* than GET and POST, then 404 'no operation defined' to a decodable request
\* without a non-empty string name, then 404 'operation <name> not found' to a
\* name the store does not hold
C9_RoutingFailures ==
    StoreMode =>
        /\ req.method \notin {"GET", "POST"} =>
              parsed = createError(404, <<"method not supported">>)
        /\ (req.method \in {"GET", "POST"} /\ ExtractionDecodes /\ ~HasOperationName) =>
              parsed = createError(404, <<"no operation defined">>)
        /\ (req.method \in {"GET", "POST"} /\ ExtractionDecodes /\ HasOperationName
              /\ Registered(RequestedOperation.v) = {}) =>
              parsed = createError(404, <<"operation ">> \o RequestedOperation.v \o <<" not found">>)

\* an unregistered name was answered with the name in the message
C9_Witness ==
    /\ StoreMode
    /\ pc = "done"
    /\ req.method = "POST"
    /\ RequestedOperation = JString(<<"123">>)
    /\ parsed = createError(404, <<"operation ", "123", " not found">>)
    /\ response.status = 404

-----------------------------------------------------------------------------
(* Order of the signature admission checks *)

SignatureRequired == SecretConfigured /\ ~PassTokenAccepted

-----------------------------------------------------------------------------
(* Signature admission without a sign secret *)

SignatureErrors ==
    {createError(403, <<"signature not defined">>), InvalidHashError}

\* C11: without a sign secret a request is admitted exactly when its body is
\* a JSON object whose query parses within max_tokens, whatever its
\* x-proxy-op-hash header is; no answer is a signature failure
C11_NoSecretNoSignatureCheck ==
    (SignatureMode /\ ~SecretConfigured) =>
        /\ parsed.kind = "request" <=> QueryParses
        /\ parsed \notin SignatureErrors

\* requests with a worthless signature header and with none were admitted by
\* a handler without sign secret, and not as passthrough
C11_Witness ==
    /\ SignatureMode /\ ~SecretConfigured /\ ~PassTokenAccepted
    /\ req.headers.ophash \in {<<"hash123">>, Null}
    /\ QueryParses
    /\ parsed.kind = "request"
    /\ ~parsed.isPassthrough
    /\ pc = "done"
    /\ originCalls # << >>

-----------------------------------------------------------------------------
(* Operation store *)

CallMade == setValidateFnCall.kind = "call"

CallFailed == CallMade /\ setValidateFnCall.thrown # Null

UnregisteredCall == CallMade /\ Registered(setValidateFnCall.operationName) = {}

\* C12 (as stated): setValidateFn fails for every name that was not registered,
\* with a validator and with null alike, and a failing call leaves the
\* validator map as it was
C12_UnregisteredNameAlwaysFails ==
    /\ UnregisteredCall => CallFailed
    /\ CallFailed => validateMap = setValidateFnCall.before

\* C12 (amended): setValidateFn with a validator fails with
\* '<name> not registered' exactly when the name was not registered, and the
\* failing call leaves the validator map as it was; with null it never fails:
\* it removes the validator of that name if there is one, which for an
\* unregistered name changes nothing
C12_UnregisteredNameFailsForValidator ==
    CallMade =>
        LET call == setValidateFnCall
        IN  /\ CallFailed <=> (UnregisteredCall /\ call.handler # "none")
            /\ CallFailed =>
                  /\ call.thrown = call.operationName \o <<" not registered">>
                  /\ validateMap = call.before
            /\ UnregisteredCall => validateMap = call.before
            /\ (~UnregisteredCall /\ call.handler # "none") =>
                  /\ call.operationName \in DOMAIN validateMap
                  /\ validateMap[call.operationName] = call.handler
            /\ call.handler = "none" => call.operationName \notin DOMAIN validateMap
            /\ \A n \in DOMAIN call.before \ {call.operationName} :
                  n \in DOMAIN validateMap /\ validateMap[n] = call.before[n]

\* a validator for an unregistered name was refused by a store that already
\* held a validator
C12_Witness ==
    /\ UnregisteredCall
    /\ setValidateFnCall.handler = "requireAbc"
    /\ CallFailed
    /\ setValidateFnCall.before # << >>
    /\ validateMap = setValidateFnCall.before

\* C13: no step changes what getOperation and getOperations return: the
\* registered names and each definition's name, kind, query and behaviour
\* stay those the store was built with
C13_StoreDataImmutable ==
    [][/\ getOperations(cfg'.operations) = getOperations(cfg.operations)
       /\ \A n \in OperationNames :
             getOperation(cfg'.operations, n) = getOperation(cfg.operations, n)]_vars

\* after a successful and then a failing setValidateFn call the store still
\* lists both of its definitions
C13_Witness ==
    /\ cfg.mode = "store"
    /\ CallFailed
    /\ validateMap # << >>
    /\ getOperations(cfg.operations) = {DefinitionOf(OperationMe), DefinitionOf(OperationOther)}
    /\ getOperation(cfg.operations, <<"me">>) = {DefinitionOf(OperationMe)}

-----------------------------------------------------------------------------
(* Origin failures *)

FetchThrew == entry = "handle" /\ originOutcome.kind = "throw"

HookThrew == response.kind = "throw" /\ "hook" \in DOMAIN response

-----------------------------------------------------------------------------
(* Error propagation *)

\* C15: admission returns a ParsedRequest or a ParseError and handle returns a
\* Response; no exception leaves a stage
C15_NoStageThrows ==
    /\ parsed.kind # "throw"
    /\ (entry = "handle" /\ pc = "done") => response.kind = "response"

-----------------------------------------------------------------------------
(* Collector callbacks *)

HookOrder == <<"onRequestParsed", "onProxied", "onResponseParsed">>

HandleRun == entry = "handle" /\ pc # "idle"

AdmissionReturned == parsed.kind \in {"request", "error"}

\* the proxy response is 2xx, has a JSON content type and a body that decodes
Decodable ==
    /\ proxyResponse # None
    /\ ResponseOk(proxyResponse)
    /\ ~parseResponseFails(proxyResponse)

C17_HookExceptionSwallowed ==
    (HandleRun /\ pc = "done" /\ AdmissionReturned) => ~HookThrew

-----------------------------------------------------------------------------
(* Response shaping *)

\* handle gave the decoded payload to the shaper and returned its result
Shaped == pc = "done" /\ formatOptions # None /\ response.kind = "response"

MaskingEnabled == formatOptions.errorMasking # << >>

OriginPayload == proxyResponse.body.value

ShapedPayload == response.body.value

\* C18: with masking enabled no error message of a shaped response matches
\* /Did you mean ".+"/: every message of the origin's errors that matched now
\* carries the mask instead, and a message that did not match is unchanged
C18_NoSuggestionAfterMasking ==
    (Shaped /\ MaskingEnabled /\ OriginPayload.errors.t = "array") =>
        /\ ShapedPayload.errors.t = "array"
        /\ Len(ShapedPayload.errors.items) = Len(OriginPayload.errors.items)
        /\ \A i \in 1..Len(OriginPayload.errors.items) :
              LET before == OriginPayload.errors.items[i]
                  after == ShapedPayload.errors.items[i]
              IN  /\ ~MatchesErrorRegex(after)
                  /\ MatchesErrorRegex(before) =>
                        \E k \in 1..Len(after) : <<after[k]>> = formatOptions.errorMasking
                  /\ ~MatchesErrorRegex(before) => after = before

\* messages with two suggestions on one line and on two lines were masked
C18_Witness ==
    /\ Shaped /\ MaskingEnabled
    /\ OriginPayload = PayloadSuggestions
    /\ ShapedPayload.errors.items =
          << <<"[Suggestion hidden]", "?">>,
             << >>,
             <<"[Suggestion hidden]", LineBreak, "[Suggestion hidden]">>,
             MessageNoSuggestion >>

\* C19: a shaped response has no extensions key when removeExtensions is set
\* and the origin payload had one, whatever its value; otherwise the key is
\* kept with its value
C19_ExtensionsKeyRemoved ==
    (Shaped /\ OriginPayload.extensions.t # "undefined") =>
        IF formatOptions.removeExtensions
        THEN ShapedPayload.extensions.t = "undefined"
        ELSE ShapedPayload.extensions = OriginPayload.extensions

-----------------------------------------------------------------------------
(* Origin responses that are not shaped *)

OriginAnswered == pc = "done" /\ originOutcome.kind = "response"

JsonContentType(resp) ==
    \E i \in 1..Len(resp.contentType) :
        resp.contentType[i] \in {"application/json", "application/graphql-response+json"}

ShaperInvoked == formatOptions # None

OnResponseParsedInvoked == \E i \in 1..Len(hookLog) : hookLog[i] = "onResponseParsed"

\* C20 (as stated): an origin response that is not 2xx or has no JSON content
\* type is what the client receives, unchanged; the shaper and
\* onResponseParsed are invoked only for 2xx responses with a JSON content type
C20_UnshapedPassThrough ==
    /\ (OriginAnswered /\ response.kind = "response"
          /\ (~ResponseOk(originOutcome) \/ ~JsonContentType(originOutcome))) =>
          response = originOutcome
    /\ (ShaperInvoked \/ OnResponseParsedInvoked) =>
          (ResponseOk(originOutcome) /\ JsonContentType(originOutcome))

\* C20 (amended): handle returns a non-2xx origin response unchanged and
\* answers 406 'cannot parse response' to a 2xx response without JSON content
\* type or with a body that does not decode; proxy() on its own returns every
\* origin response unchanged; the shaper and onResponseParsed are invoked only
\* for 2xx responses with a JSON content type whose body decodes; a callback
\* that throws ends the run with its exception
C20_UnshapedPassThroughOr406 ==
    /\ (ShaperInvoked \/ OnResponseParsedInvoked) =>
          /\ ResponseOk(originOutcome)
          /\ JsonContentType(originOutcome)
          /\ originOutcome.body.enc = "json"
    /\ OriginAnswered =>
          IF entry = "proxy" THEN response = originOutcome
          ELSE IF HookThrew THEN response = HookError(hookLog[Len(hookLog)])
          ELSE IF ~ResponseOk(originOutcome)
          THEN response = originOutcome /\ ~ShaperInvoked /\ ~OnResponseParsedInvoked
          ELSE IF ~JsonContentType(originOutcome) \/ originOutcome.body.enc # "json"
          THEN /\ response = createErrorResponse(<<"cannot parse response">>, 406)
               /\ ~ShaperInvoked /\ ~OnResponseParsedInvoked
          ELSE /\ ShaperInvoked /\ OnResponseParsedInvoked
               /\ response = parseOriginResponse(originOutcome.body.value, originOutcome,
                                                  formatOptions)

\* handle answered 406 to a 200 text response of the origin
C20_Witness ==
    /\ OriginAnswered
    /\ entry = "handle"
    /\ originOutcome.status = 200
    /\ originOutcome.contentType = <<"application/text">>
    /\ originOutcome.body = TextBody(<<"works">>)
    /\ response = createErrorResponse(<<"cannot parse response">>, 406)

-----------------------------------------------------------------------------
(* Reports *)

\* collect resolved with a report
Reported == report.kind = "report"

\* the collector was told of an admitted request
AdmittedReport == Reported /\ ~isParsedError(context.parsed.parsed)

\* the payload the collector holds when collect runs
HeldPayload == context.response.resp

\* the payload as it was when onResponseParsed was called
ObservedPayload == shaping.resp

HasErrors(payload) == payload.errors.t = "array" /\ Len(payload.errors.items) > 0

\* C21: the errors of a report collected after the response was shaped are
\* the origin's error messages as onResponseParsed saw them, not the masked
\* ones
C21_ReportKeepsOriginErrors ==
    (AdmittedReport /\ context.response # None /\ shaping.options # None
     /\ HasErrors(ObservedPayload)) =>
        report.errors = UpstreamErrors(ObservedPayload.errors)

InOkRange(status) == status >= 200 /\ status < 400

\* C22: the report of an admitted request has ok true exactly when the
\* origin's status is in [200, 400), the payload has a non-null data and the
\* payload has no errors key or an empty errors sequence; the response handed
\* to collect is one whose status is in that range when the origin's is
C22_OkIffStatusDataNoErrors ==
    (AdmittedReport /\ context.proxy # None
     /\ InOkRange(context.proxy.response.status) = InOkRange(collectCall.response.status)) =>
        report.ok = (/\ InOkRange(context.proxy.response.status)
                     /\ context.response # None
                     /\ HeldPayload.data.t \notin {"undefined", "null"}
                     /\ \/ HeldPayload.errors.t = "undefined"
                        \/ HeldPayload.errors = EmptyErrors)

\* C23: in every report total is at least parsing + proxying + processing,
\* whichever callbacks were invoked and in whichever order
C23_TotalCoversStages ==
    Reported =>
        report.durations.total >=
            report.durations.parsing + report.durations.proxying + report.durations.processing

\* onProxied was invoked before onRequestParsed, some time before collect
C23_Witness ==
    /\ AdmittedReport
    /\ context.proxy # None
    /\ context.proxy.ts < context.parsed.ts
    /\ context.parsed.ts < collectCall.collect_at

\* C24: without a non-empty errors array in the payload the errors of the
\* report are one element made from the response body when the status is at
\* least 400, and absent below 400; with one they are the payload's errors
C24_ErrorsFallbackFrom400 ==
    AdmittedReport =>
        IF context.response # None /\ HasErrors(HeldPayload)
        THEN report.errors = UpstreamErrors(HeldPayload.errors)
        ELSE IF collectCall.response.status >= 400
        THEN report.errors =
                 ReportErrors(<<responseTextToError(collectCall.response.text,
                                                    collectCall.response.status)>>)
        ELSE report.errors = NoReportErrors

\* C25: a report whose ok is false carries a non-empty errors sequence
C25_FailureCarriesErrors ==
    (Reported /\ ~report.ok) =>
        report.errors.t = "array" /\ Len(report.errors.items) > 0

\* collect was called on a collector that was told of a ParseError
RejectedCollect == report # None /\ context.parsed # None /\ isParsedError(context.parsed.parsed)

\* C26: for a ParseError collect makes a report with ok false, the single
\* error 'cannot parse: ' + message, inputSize 0, proxying and processing 0,
\* and neither query nor operationName, whichever other callbacks were invoked
C26_ParseErrorReport ==
    RejectedCollect =>
        /\ Reported
        /\ ~report.ok
        /\ report.errors.t = "array"
        /\ Len(report.errors.items) = 1
        /\ report.errors.items[1].message = <<"cannot parse: ">> \o context.parsed.parsed.message
        /\ report.inputSize = 0
        /\ report.durations.proxying = 0
        /\ report.durations.processing = 0
        /\ report.query = JUndefined
        /\ report.operationName = JUndefined

\* a rejected request whose collector also heard onProxied and
\* onResponseParsed, at times that differ from each other and from collect's
C26_Witness ==
    /\ RejectedCollect
    /\ context.proxy # None
    /\ context.response # None
    /\ context.parsed.ts < context.proxy.ts
    /\ context.proxy.ts < collectCall.collect_at

\* C27: collect on a collector none of whose callbacks was invoked resolves
\* with null
C27_NoHookNoReport ==
    (report # None /\ context = createEmptyReportContext) => report.kind = "null"

C27_Witness ==
    /\ report.kind = "null"
    /\ context = createEmptyReportContext
    /\ collectCall.collect_at > started_at

\* a header value that is a decimal integer
IsIntegerText(s) == s # Null /\ s # << >> /\ \A i \in 1..Len(s) : IsDigit(s[i])

\* C28: response_size is the integer value of the content-size header when
\* the header is present and is an integer, and the byte length of the body
\* in every other case
C28_ResponseSizeHeaderOrBytes ==
    Reported =>
        report.response_size =
            IF IsIntegerText(collectCall.response.contentSize)
            THEN Number(DecimalValue(collectCall.response.contentSize))
            ELSE Number(ByteLength(collectCall.response.text))

\* the places of a tree: the sequences of child indices that lead to a node
RECURSIVE Places(_)
Places(tree) ==
    {<< >>} \cup UNION {{<<i>> \o p : p \in Places(tree.kids[i])} : i \in 1..Len(tree.kids)}

RECURSIVE NodeAt(_, _)
NodeAt(tree, place) ==
    IF place = << >> THEN tree ELSE NodeAt(tree.kids[Head(place)], Tail(place))

\* the path of a place: '$', then '.' and the key for each step into an
\* object, nothing for a step into an array
RECURSIVE PathFrom(_, _, _)
PathFrom(tree, place, path) ==
    IF place = << >> THEN path
    ELSE PathFrom(tree.kids[Head(place)], Tail(place),
                  IF tree.t = "object" THEN path \o <<".", tree.keys[Head(place)]>> ELSE path)
PathOf(tree, place) == PathFrom(tree, place, <<"$">>)

Parent(place) == SubSeq(place, 1, Len(place) - 1)

\* places that count: a leaf that is not undefined counts for itself, an
\* element of an array counts for the length of its array
IsCountedLeaf(tree, place) == NodeAt(tree, place).t \notin {"undefined", "object", "array"}
IsElement(tree, place) == place # << >> /\ NodeAt(tree, Parent(place)).t = "array"
IsArray(tree, place) == NodeAt(tree, place).t = "array"

\* the map the walk of a tree gives
WalkMap(tree) ==
    LET counted == {p \in Places(tree) : IsCountedLeaf(tree, p) \/ IsArray(tree, p)}
        paths == {PathOf(tree, p) : p \in counted}
    IN  [path \in paths |->
            Cardinality({p \in Places(tree) : IsCountedLeaf(tree, p) /\ PathOf(tree, p) = path})
            + Cardinality({p \in Places(tree) : IsElement(tree, p) /\ PathOf(tree, p) = path})]

\* a report that has a response_map
Mapped == AdmittedReport /\ report.response_map # None

\* C29: response_map is the walk of the payload's data from '$': undefined is
\* skipped, any other leaf adds 1 at its path, an array adds its length at its
\* own path and its elements are walked under that path
C29_ResponseMapIsWalk ==
    Mapped => report.response_map.map = WalkMap(HeldPayload.data)

\* C29 as the code has it: the walk is made of a data that is an object or an
\* array; for any other data, null included, the map is empty
C29_ResponseMapIsWalkOfContainers ==
    Mapped =>
        report.response_map.map =
            IF HeldPayload.data.t \in {"object", "array"}
            THEN WalkMap(HeldPayload.data)
            ELSE << >>

\* the map of the nested data: the empty array counts 0, the two elements of
\* arr share its paths, the undefined testb is absent and the null test counts
C29_Witness ==
    /\ Mapped
    /\ HeldPayload.data = DataNested
    /\ report.response_map.map =
          [path \in {<<"$", ".", "itemA", ".", "test">>, <<"$", ".", "itemA", ".", "test3">>,
                     <<"$", ".", "emptyArr">>, <<"$", ".", "arr">>, <<"$", ".", "arr", ".", "w">>,
                     <<"$", ".", "arr", ".", "test">>, <<"$", ".", "arr", ".", "d">>} |->
              IF path = <<"$", ".", "emptyArr">> THEN 0
              ELSE IF path \in {<<"$", ".", "arr">>, <<"$", ".", "arr", ".", "test">>} THEN 2
              ELSE 1]

-----------------------------------------------------------------------------
(* Headers sent to the origin *)

Forwarded == originURL # None

\* C30: the headers of a request sent to the origin have origin set to the
\* origin of the configured URL and content-type application/json, and none
\* of content-length, content-encoding, host and transfer-encoding, whatever
\* the client sent
C30_ForwardedHeadersPolicy ==
    Forwarded =>
        /\ HeadersGet(requestHeaders, "origin") = URLOrigin(originURL)
        /\ HeadersGet(requestHeaders, "content-type") = <<"application/json">>
        /\ \A n \in {"content-length", "content-encoding", "host", "transfer-encoding"} :
              HeadersGet(requestHeaders, n) = Null

\* the first of cf-connecting-ip and x-real-ip the client sent, or null
ClientAddress ==
    IF HeadersGet(clientHeaders, "cf-connecting-ip") # Null
    THEN HeadersGet(clientHeaders, "cf-connecting-ip")
    ELSE HeadersGet(clientHeaders, "x-real-ip")

ForwardedForKept ==
    HeadersGet(requestHeaders, "x-forwarded-for") =
        IF HeadersGet(clientHeaders, "x-forwarded-for") # Null
        THEN HeadersGet(clientHeaders, "x-forwarded-for")
        ELSE ClientAddress

HostMirrored ==
    /\ HeadersGet(clientHeaders, "host") # Null =>
          HeadersGet(requestHeaders, "x-forwarded-host") = HeadersGet(clientHeaders, "host")
    /\ HeadersGet(requestHeaders, "host") = Null

\* C31: a client's X-Forwarded-For is never overwritten and is otherwise the
\* first of cf-connecting-ip and x-real-ip; X-Forwarded-Proto becomes https
\* only when the client sent none; a client's Host is mirrored to
\* X-Forwarded-Host while host itself is removed
C31_ForwardedDiscipline ==
    Forwarded =>
        /\ ForwardedForKept
        /\ HeadersGet(requestHeaders, "x-forwarded-proto") =
              IF HeadersGet(clientHeaders, "x-forwarded-proto") # Null
              THEN HeadersGet(clientHeaders, "x-forwarded-proto")
              ELSE <<"https">>
        /\ HostMirrored

\* C31 as the code has it: X-Forwarded-Proto becomes https when the client
\* sent none or sent it with an empty value
C31_ForwardedDisciplineEmptyProto ==
    Forwarded =>
        /\ ForwardedForKept
        /\ HeadersGet(requestHeaders, "x-forwarded-proto") =
              IF HeadersGet(clientHeaders, "x-forwarded-proto") \notin {Null, << >>}
              THEN HeadersGet(clientHeaders, "x-forwarded-proto")
              ELSE <<"https">>
        /\ HostMirrored

\* a client that sent X-Forwarded-For, both address headers, a protocol and a
\* host
C31_Witness ==
    /\ Forwarded
    /\ HeadersGet(clientHeaders, "x-forwarded-for") = <<"10.0.0.1">>
    /\ HeadersGet(clientHeaders, "cf-connecting-ip") # Null
    /\ HeadersGet(clientHeaders, "x-real-ip") # Null
    /\ HeadersGet(requestHeaders, "x-forwarded-for") = <<"10.0.0.1">>
    /\ HeadersGet(requestHeaders, "x-forwarded-proto") = <<"http">>
    /\ HeadersGet(requestHeaders, "x-forwarded-host") = <<"test.localhost">>
    /\ HeadersGet(clientHeaders, "x-forwarded-host") = <<"edge.example">>

-----------------------------------------------------------------------------
(* Shaping twice *)

\* the shaper applied, under the same options, to the payload of the response
\* it returned
ShapedAgain == parseOriginResponse(ShapedPayload, proxyResponse, formatOptions)

\* C32: shaping the shaper's own output under the same options gives the
\* same body as the first shaping
C32_ShapingIdempotent ==
    Shaped => ShapedAgain.body = response.body

\* a first shaping that replaced suggestions on two lines and removed the
\* extensions, so that a second one has something to leave alone
C32_Witness ==
    /\ Shaped
    /\ MaskingEnabled
    /\ formatOptions.removeExtensions
    /\ OriginPayload.errors.t = "array"
    /\ \E i \in 1..Len(OriginPayload.errors.items) :
          /\ OriginPayload.errors.items[i] = MessageTwoLines
          /\ ShapedPayload.errors.items[i] # MessageTwoLines
    /\ ShapedAgain.body = response.body

-----------------------------------------------------------------------------
(* Canonical form and formatting *)

\* the text without its whitespace and comments
Unformatted(text) == SelectSeq(text, LAMBDA l : l \notin {" ", "#comment\n"})

\* two texts that differ only in whitespace or comments
SameButFormatting(x, y) == Unformatted(x) = Unformatted(y)

\* the signature the configured secret and algorithm give to a query text
SignatureFor(text) ==
    HmacHex(cfg.signSecret.secret,
            IF cfg.signSecret.t = "string" THEN "SHA-256" ELSE cfg.signSecret.algorithm,
            Canonical(text))

-----------------------------------------------------------------------------
(* The parse memo *)

\* C34: every call of parse has the outcome of a parse without memo: it
\* fails when the text is not a document or has more tokens than the call's
\* max_tokens, and returns the document of the text otherwise
C34_MemoKeepsOutcome ==
    parseCall # None =>
        /\ parseCall.throws = GraphqlParseThrows(JString(parseCall.input), parseCall.maxTokens)
        /\ ~parseCall.throws => parseCall.document = GraphqlParse(JString(parseCall.input))

-----------------------------------------------------------------------------
(* Callbacks of one run *)

\* how many times a callback has been invoked in this run
Invocations(hook) == Cardinality({i \in DOMAIN hookLog : hookLog[i] = hook})

Invoked(hook) == Invocations(hook) >= 1

\* the response the proxy stage produced is 2xx, declares JSON and has a body
\* that decoded
ProxiedDecoded ==
    /\ proxyResponse # None
    /\ proxyResponse.status \in 200..299
    /\ \/ Includes(proxyResponse.contentType, "application/json")
       \/ Includes(proxyResponse.contentType, "application/graphql-response+json")
    /\ proxyResponse.body.enc = "json"

\* C35: in every run of handle each callback is invoked at most once, the
\* callbacks invoked are the first ones of onRequestParsed, onProxied,
\* onResponseParsed in that order, onProxied is not invoked for a request
\* whose admission returned a ParseError, and onResponseParsed is invoked only
\* after onProxied got a 2xx JSON response whose body decoded
C35_HooksOncePrefix ==
    HandleRun =>
        /\ \A i \in DOMAIN HookOrder : Invocations(HookOrder[i]) <= 1
        /\ \E n \in 0..Len(HookOrder) : hookLog = SubSeq(HookOrder, 1, n)
        /\ parsed.kind = "error" => ~Invoked("onProxied")
        /\ Invoked("onResponseParsed") => (Invoked("onProxied") /\ ProxiedDecoded)

\* a run ended after onProxied got a 2xx response that is not JSON, and
\* onResponseParsed was not invoked
C35_Witness ==
    /\ HandleRun
    /\ pc = "done"
    /\ proxyResponse # None
    /\ proxyResponse.status = 200
    /\ ~ProxiedDecoded
    /\ hookLog = <<"onRequestParsed", "onProxied">>

-----------------------------------------------------------------------------
(* Steps of signature admission *)

AdmissionSteps ==
    <<"passthrough", "header presence", "body decode", "parse and canonicalize",
      "HMAC comparison">>

\* a signature handler has run admission on a request that is not passthrough
\* while a sign secret is configured
SignatureChecked == SignatureMode /\ SecretConfigured /\ ~PassTokenAccepted

\* the number of the first step that fails for this request, 5 when steps 1
\* to 4 succeed
FirstFailingStep ==
    IF ~TruthyStr(req.headers.ophash) THEN 2
    ELSE IF ~BodyHasQuery THEN 3
    ELSE IF ~QueryParses THEN 4
    ELSE 5

\* C36 (as stated): all five steps of signature admission are executed for
\* every request, whichever step fails
C36_AllStepsAlwaysRun == SignatureChecked => admissionSteps = AdmissionSteps

\* C36 (amended): the steps are executed in order up to and including the
\* first step that fails, and none after it; all five are executed exactly
\* when steps 1 to 4 succeed
C36_StepsUpToFirstFailure ==
    SignatureChecked => admissionSteps = SubSeq(AdmissionSteps, 1, FirstFailingStep)

\* a request without signature header and with an invalid body was rejected
\* after the header check: the body was not decoded and no HMAC was computed
C36_Witness ==
    /\ SignatureChecked
    /\ ~TruthyStr(req.headers.ophash)
    /\ req.body.json = "invalid"
    /\ parsed = createError(403, <<"signature not defined">>)
    /\ admissionSteps = <<"passthrough", "header presence">>

-----------------------------------------------------------------------------
(* Durations *)

\* C37: whatever the order of onRequestParsed, onProxied, onResponseParsed
\* and collect, every duration of an emitted report is at least 0 (the clock
\* never goes back)
C37_DurationsNonNegative ==
    Reported =>
        /\ report.durations.parsing >= 0
        /\ report.durations.proxying >= 0
        /\ report.durations.processing >= 0
        /\ report.durations.total >= 0

-----------------------------------------------------------------------------
(* Validators of the operation store *)

\* the names the store was built with
RegisteredNames == {cfg.operations[i].operationName : i \in DOMAIN cfg.operations}

\* C38: in every state of an operation store every name that has a validator
\* is one of the names registered at construction
C38_ValidatorsOnlyForRegistered == DOMAIN validateMap \subseteq RegisteredNames

\* every registered name has a validator, and the last call, which offered a
\* validator for an unregistered name, left none for it
C38_Witness ==
    /\ cfg.mode = "store"
    /\ Len(cfg.operations) = 2
    /\ DOMAIN validateMap = RegisteredNames
    /\ setValidateFnCall # None
    /\ setValidateFnCall.operationName \notin RegisteredNames
    /\ setValidateFnCall.handler # "none"

-----------------------------------------------------------------------------
(* Requests in flight together *)

Ended(i) == runs[i].pc = "done"

\* C39: whatever the interleaving of two requests handled by one handler,
\* each with its own collector, the response of each and what its collector
\* was told, from which its report is made, are those of the same request
\* handled alone
C39_RunsIsolated ==
    \A i \in Runs :
        Ended(i) =>
            LET alone == HandleAlone(cfg, validateMap, runs[i].req, runs[i].randomKey,
                                     runs[i].outcome)
            IN  /\ runs[i].response = alone.response
                /\ runs[i].hooks = alone.hooks

\* the second request was admitted while the first waited for the origin;
\* both carry the same document, laid out differently, under one signature,
\* and both ended with the origin's answer shaped
C39_Witness ==
    /\ Ended(1) /\ Ended(2)
    /\ runs[2].overlapped
    /\ runs[1].req.body.query = JString(QueryMeTight)
    /\ runs[2].req.body.query = JString(QueryMeSpaced)
    /\ runs[2].req.headers.pass = Null
    /\ cfg.signSecret = StringSignSecret
    /\ runs[1].response.kind = "response" /\ runs[1].response.status = 200
    /\ runs[2].response.kind = "response" /\ runs[2].response.status = 200
    /\ Len(runs[1].hooks) = 3 /\ Len(runs[2].hooks) = 3

====
